---- MODULE Spec2Model ----
(***************************************************************************)
(* A model of KDBNATClient (aiq_aira/kdb_tools_nat.py): the discovery of   *)
(* tools, resources and data content, and the plan / execute / re-plan /   *)
(* synthesize loop of intelligent_query, with the fast path                *)
(* simple_chat_query.                                                      *)
(*                                                                         *)
(* Strings are sequences of tokens.  A token is a record [k, v, n]: k is   *)
(* the kind of token ("##" a heading, "body" the content of a resource,    *)
(* "w" a fixed phrase of the code), v its text and n the version of the    *)
(* server content it was read from (0 for text the client writes itself).  *)
(* Concatenation of strings is concatenation of sequences; the empty       *)
(* string is << >>.  A Python dict is a sequence of [key, val] records in  *)
(* insertion order.                                                        *)
(***************************************************************************)
EXTENDS Integers, Sequences, FiniteSets, TLC

VARIABLES
    \* ---- KDBNATClient fields (__init__)
    tools,                    \* self._tools: the tool catalog, in listing order
    tools_description,        \* self._tools_description
    resources,                \* self._resources
    schema_description,       \* self._schema_description
    sql_guidance,             \* self._sql_guidance
    additional_context,       \* self._additional_context
    initialized,              \* self._initialized
    data_content,             \* self._data_content
    data_content_discovered,  \* self._data_content_discovered
    \* ---- the remote MCP server and what the last client call did
    server,                   \* what the server exposes now
    changes,                  \* number of times the server changed
    lastOp,                   \* the last public call made on the client
    lastReqs,                 \* the requests that call sent to the server
    \* ---- one invocation of intelligent_query / simple_chat_query
    pc,                       \* position in the invocation
    mode,                     \* which entry point is running
    max_iterations,           \* argument max_iterations of intelligent_query
    schema_question,          \* whether user_query holds a schema keyword
    iteration,                \* loop variable of intelligent_query
    plan,                     \* the plan of the current iteration
    stepIdx,                  \* index of the next step of plan["steps"]
    inflight,                 \* tool calls sent and not yet answered
    iteration_results,        \* list iteration_results
    all_tool_results,         \* list all_tool_results
    discovered_schema,        \* string discovered_schema
    schema_discovery_done,    \* flag schema_discovery_done
    planLog,                  \* the schema section of every planning prompt so far
    callLog,                  \* every tool call completed in this invocation
    synthCalls,               \* number of synthesis model calls
    outcome,                  \* "none", "returned" or "raised"
    answer,                   \* the answer returned
    returned,                 \* the tool-result list returned by intelligent_query
    sql_query,                \* the query returned by simple_chat_query
    rows,                     \* the rows returned by simple_chat_query
    llm_calls,                \* every model call of this invocation, and what the model did
    \* ---- one direct call of a method, and coroutines sharing the client
    callee,                   \* the method called directly ("none": no such call)
    args,                     \* its arguments
    ret,                      \* what it returned (Pending before it has run)
    tasks,                    \* the coroutines running on the client, by task id
    \* ---- the job store of the data loader (routes/kdb_data.py)
    redis                     \* the persisted JobStatus of every job, by job id

clientVars == <<tools, tools_description, resources, schema_description,
                sql_guidance, additional_context, initialized, data_content,
                data_content_discovered>>
envVars == <<server, changes, lastOp, lastReqs>>
queryVars == <<pc, mode, max_iterations, schema_question, iteration, plan, stepIdx,
               inflight, iteration_results, all_tool_results, discovered_schema,
               schema_discovery_done, planLog, callLog, synthCalls, outcome, answer,
               returned, sql_query, rows, llm_calls>>
unitVars == <<callee, args, ret, tasks, redis>>
vars == <<clientVars, envVars, queryVars, unitVars>>

\* ---- bounds of the model
MaxChanges == 1      \* server changes in one behaviour
MaxSteps == 2        \* steps in one plan
MaxCalls == 3        \* tool calls planned in one invocation of intelligent_query
MaxIterArg == 3      \* largest max_iterations passed to intelligent_query

\* ---- generic helpers
Tok(k, v, n) == [k |-> k, v |-> v, n |-> n]
W(v) == Tok("w", v, 0)

RECURSIVE Flatten(_)
Flatten(ss) == IF ss = << >> THEN << >> ELSE Head(ss) \o Flatten(Tail(ss))

\* dict[key] = val: an existing key keeps its position, a new key goes last
DictPut(d, key, val) ==
    IF \E i \in DOMAIN d : d[i].key = key
    THEN [i \in DOMAIN d |-> IF d[i].key = key THEN [key |-> key, val |-> val] ELSE d[i]]
    ELSE Append(d, [key |-> key, val |-> val])

\* ---- the server's tools and resources
\* A tool: its name, whether its name or description holds one of the
\* schema keywords, whether its name holds "sql" or "query", and whether the
\* server gave it a description (the field is optional in the protocol; an
\* absent description reaches the client as None).
SqlTool == [name |-> "kdbx_run_sql_query", schemaKw |-> FALSE, sqlKw |-> TRUE, described |-> TRUE]
ListTool == [name |-> "kdbx_list_tables", schemaKw |-> TRUE, sqlKw |-> FALSE, described |-> TRUE]
PingTool == [name |-> "kdbx_ping", schemaKw |-> FALSE, sqlKw |-> FALSE, described |-> FALSE]

\* A resource descriptor: words are the keywords found in its lower-cased
\* name and description, audience the annotation (empty: absent), priority the
\* annotation times ten, as a set ({}: absent), readable whether read_resource
\* returns text.
Res(uri, name, words, audience, priority, readable) ==
    [uri |-> uri, name |-> name, words |-> words, audience |-> audience,
     priority |-> priority, readable |-> readable]
RDescribe == Res("kdbx://tables", "kdbx_describe_tables", {"describe", "tables"}, {}, {}, TRUE)
RGuidance ==
    Res("kdbx://guidance", "kdbx_sql_query_guidance", {"sql", "query", "guidance"}, {"llm"}, {9}, TRUE)
RNotes == Res("kdbx://notes", "release_notes", {}, {}, {}, TRUE)
RHuman == Res("kdbx://dashboard", "dashboard_tables", {"tables"}, {"user"}, {9}, TRUE)
RBroken == Res("kdbx://broken", "broken_schema", {"schema"}, {}, {2}, FALSE)
ResourceLists ==
    { << >>, <<RDescribe, RGuidance, RNotes>>, <<RGuidance>>, <<RDescribe>>,
      <<RHuman, RBroken>>, <<RNotes, RHuman, RDescribe>> }

\* The tool side of a server: whether list_tools answers, the tools it lists
\* and the tools whose calls fail.
ToolSide(ok, list, failing) == [listToolsOk |-> ok, toolList |-> list, failing |-> failing]
ToolSides ==
    { ToolSide(TRUE, <<SqlTool>>, {}),
      ToolSide(TRUE, <<ListTool, SqlTool>>, {}),
      ToolSide(TRUE, <<ListTool, SqlTool>>, {"kdbx_list_tables"}),
      ToolSide(TRUE, <<ListTool, SqlTool>>, {"kdbx_list_tables", "kdbx_run_sql_query"}),
      ToolSide(TRUE, <<SqlTool, PingTool>>, {}),
      ToolSide(FALSE, <<SqlTool>>, {}) }

\* What the server exposes: its tool side, its resources (empty: none, or
\* list_resources unsupported) and the version of the content it serves.
ServersAt(ver) ==
    { [listToolsOk |-> t.listToolsOk, toolList |-> t.toolList, failing |-> t.failing,
       resourceList |-> r, ver |-> ver] : t \in ToolSides, r \in ResourceLists }

\* ---- the transport: session.call_tool and KDBNATClient.call_tool
\* A content item of a tool result; only "text" items carry text.
TextItem(text) == [type |-> "text", text |-> text]
ImageItem == [type |-> "image", text |-> << >>]

\* What session.call_tool does: it raises, or it returns a result with an
\* isError flag and a list of content items.
\* message is str(e) of the exception raised.
RawRaise ==
    [raises |-> TRUE, isError |-> FALSE, content |-> << >>, message |-> <<W("transport")>>]
\* an exception without a message, such as a timeout
RawRaiseSilent == [raises |-> TRUE, isError |-> FALSE, content |-> << >>, message |-> << >>]
RawResult(isError, content) ==
    [raises |-> FALSE, isError |-> isError, content |-> content, message |-> << >>]
RawOkText(text) == RawResult(FALSE, <<TextItem(text)>>)
RawOkNoText == RawResult(FALSE, <<ImageItem>>)
RawErrText == RawResult(TRUE, <<TextItem(<<W("error: query failed")>>)>>)

\* The dictionary call_tool returns.  hasError says whether the key "error" is
\* set; purpose is attached by the caller.
\* the slip of setting the key for every error result
CallToolSetsErrorAlways(raw) == raw.isError

CallToolSetsError(raw) ==
    raw.isError /\ raw.content # << >> /\ \E i \in DOMAIN raw.content : raw.content[i].type = "text"

CallTool(tool_name, arguments, raw) ==
    IF raw.raises
    THEN [tool |-> tool_name, arguments |-> arguments, isError |-> TRUE,
          content |-> <<TextItem(<<W("Tool execution error: ")>> \o raw.message)>>,
          hasError |-> TRUE, error |-> raw.message, purpose |-> << >>]
    ELSE [tool |-> tool_name, arguments |-> arguments, isError |-> raw.isError,
          content |-> raw.content,
          hasError |-> CallToolSetsError(raw),
          error |-> IF CallToolSetsError(raw)
                    THEN Flatten([i \in DOMAIN raw.content |->
                                    IF raw.content[i].type = "text" THEN raw.content[i].text ELSE << >>])
                    ELSE << >>,
          purpose |-> << >>]

\* result.get("error"): truthy when the key is set to a non-empty string
GetError(result) == result.hasError /\ result.error # << >>

\* _extract_schema_from_result: the text of the "text" items, joined
ExtractSchemaFromResult(content) ==
    Flatten([i \in DOMAIN content |-> IF content[i].type = "text" THEN content[i].text ELSE << >>])

\* "error" in text.lower()
MentionsError(text) == \E i \in DOMAIN text : text[i].v \in {"error: query failed", "Tool execution error: "}

\* What the server answers to a call made during discovery: a call of a tool
\* it does not list, or of a failing tool, is an error result.
ServerReply(srv, tool_name) ==
    IF tool_name \in srv.failing \/ ~(\E i \in DOMAIN srv.toolList : srv.toolList[i].name = tool_name)
    THEN RawErrText
    ELSE RawOkText(<<Tok("body", tool_name, srv.ver)>>)

\* ---- requests sent to the server by one public call
NoReqs == [list_tools |-> 0, list_resources |-> 0, read_resource |-> 0, call_tool |-> 0]
AddReqs(a, b) ==
    [list_tools |-> a.list_tools + b.list_tools,
     list_resources |-> a.list_resources + b.list_resources,
     read_resource |-> a.read_resource + b.read_resource,
     call_tool |-> a.call_tool + b.call_tool]

\* ---- the client as a record of its fields
Client ==
    [tools |-> tools, tools_description |-> tools_description, resources |-> resources,
     schema_description |-> schema_description, sql_guidance |-> sql_guidance,
     additional_context |-> additional_context, initialized |-> initialized,
     data_content |-> data_content, data_content_discovered |-> data_content_discovered]

NewClient ==
    [tools |-> << >>, tools_description |-> << >>, resources |-> << >>,
     schema_description |-> << >>, sql_guidance |-> << >>,
     additional_context |-> << >>, initialized |-> FALSE,
     data_content |-> << >>, data_content_discovered |-> FALSE]

SetClientNow(c) ==
    /\ tools = c.tools
    /\ tools_description = c.tools_description
    /\ resources = c.resources
    /\ schema_description = c.schema_description
    /\ sql_guidance = c.sql_guidance
    /\ additional_context = c.additional_context
    /\ initialized = c.initialized
    /\ data_content = c.data_content
    /\ data_content_discovered = c.data_content_discovered

SetClient(c) ==
    /\ tools' = c.tools
    /\ tools_description' = c.tools_description
    /\ resources' = c.resources
    /\ schema_description' = c.schema_description
    /\ sql_guidance' = c.sql_guidance
    /\ additional_context' = c.additional_context
    /\ initialized' = c.initialized
    /\ data_content' = c.data_content
    /\ data_content_discovered' = c.data_content_discovered

\* ---- resource annotations
LlmAudiences == {"llm", "assistant", "ai"}

\* _is_resource_for_llm
IsResourceForLlm(r) == r.audience = {} \/ r.audience \cap LlmAudiences # {}

\* _get_resource_priority (times ten): 0.5 when the annotation is absent
GetResourcePriority(r) == IF r.priority = {} THEN 5 ELSE CHOOSE p \in r.priority : TRUE

\* sorted(..., key=..., reverse=True) item by item: highest key first, and an
\* item goes after the items of equal key that came before it (the sort is stable)
RECURSIVE InsertByPriority(_, _)
InsertByPriority(sorted, x) ==
    IF sorted = << >> THEN <<x>>
    ELSE IF Head(sorted).priority >= x.priority
         THEN <<Head(sorted)>> \o InsertByPriority(Tail(sorted), x)
         ELSE <<x>> \o sorted

RECURSIVE SortFrom(_, _)
SortFrom(sorted, rest) ==
    IF rest = << >> THEN sorted
    ELSE SortFrom(InsertByPriority(sorted, Head(rest)), Tail(rest))

\* list.sort(key=lambda x: x[0], reverse=True) on the parts of a bucket
SortByPriority(parts) == SortFrom(<< >>, parts)

\* _sort_resources_by_priority: the key is _get_resource_priority(r)
SortResourcesByPriority(rs) ==
    [i \in DOMAIN rs |->
        SortFrom(<< >>, [j \in DOMAIN rs |->
                           [priority |-> GetResourcePriority(rs[j]), item |-> rs[j]]])[i].item]

\* _read_resource: the text of the resource, "" when reading fails
ReadResource(srv, r) == IF r.readable THEN <<Tok("body", r.uri, srv.ver)>> ELSE << >>

\* the keyword lists of _discover_schema
SchemaKeywords == {"schema", "tables", "describe", "meta", "column", "structure"}
GuidanceKeywords == {"sql", "guidance", "query", "syntax", "example", "how to"}
Category(r) ==
    IF r.words \cap SchemaKeywords # {} THEN "schema"
    ELSE IF r.words \cap GuidanceKeywords # {} THEN "guidance"
    ELSE "other"

\* The loop of _discover_schema over the sorted resources: the resources read
\* with non-empty content, each with its priority, name and content.
ReadParts(srv, rs) ==
    SelectSeq([i \in DOMAIN rs |->
                 [priority |-> GetResourcePriority(rs[i]), name |-> rs[i].name,
                  category |-> Category(rs[i]), text |-> ReadResource(srv, rs[i])]],
              LAMBDA p : p.text # << >>)

RECURSIVE DictOf(_, _)
DictOf(d, parts) ==
    IF parts = << >> THEN d
    ELSE DictOf(DictPut(d, Head(parts).name, Head(parts).text), Tail(parts))

\* "\n\n".join(f"## {resource_name}\n{content}")
JoinParts(parts) ==
    Flatten([i \in DOMAIN parts |-> <<Tok("##", parts[i].name, 0)>> \o parts[i].text])

\* _build_schema_description_from_contents
BuildSchemaDescriptionFromContents(contents) ==
    IF contents = << >> THEN <<W("No schema information available.")>>
    ELSE <<W("## Available Resources from MCP Server")>>
         \o Flatten([i \in DOMAIN contents |->
                        <<Tok("###", contents[i].key, 0)>> \o contents[i].val])

\* _build_schema_description
BuildSchemaDescription(rs) ==
    IF rs = << >> THEN <<W("No schema information available.")>>
    ELSE <<W("Available resources/tables:")>>
         \o [i \in DOMAIN rs |-> Tok("-", rs[i].name, 0)]

\* _build_tools_description
BuildToolsDescription(ts) ==
    Flatten([i \in DOMAIN ts |-> <<Tok("###", ts[i].name, 0), W("Description"), W("Parameters")>>])

\* ---- _discover_schema_via_tools
DynamicDiscoveryPlaceholder == <<W("Schema information not available at initialization.")>>
FallbackQueries == <<"tables[]", "meta", "SHOW TABLES", "SELECT name FROM tables">>

\* the result of one tool call of the fallback is usable
SchemaReplyUsable(srv, tool_name) ==
    LET result == CallTool(tool_name, "{}", ServerReply(srv, tool_name))
        text == ExtractSchemaFromResult(result.content)
    IN ~GetError(result) /\ text # << >> /\ ~MentionsError(text)

SchemaReplyText(srv, tool_name) ==
    ExtractSchemaFromResult(CallTool(tool_name, "{}", ServerReply(srv, tool_name)).content)

\* The schema-keyword tools are called in catalog order until one answers.
\* Each tool's description is lower-cased before the keyword test and outside
\* the try: a tool without a description raises AttributeError there.
\* calls is the list of the tool calls made so far.
RECURSIVE TrySchemaTools(_, _, _)
TrySchemaTools(srv, ts, calls) ==
    IF ts = << >>
    THEN [found |-> FALSE, schema |-> << >>, calls |-> calls, raised |-> FALSE]
    ELSE IF ~Head(ts).described
    THEN [found |-> FALSE, schema |-> << >>, calls |-> calls, raised |-> TRUE]
    ELSE IF ~Head(ts).schemaKw THEN TrySchemaTools(srv, Tail(ts), calls)
    ELSE IF SchemaReplyUsable(srv, Head(ts).name)
         THEN [found |-> TRUE, schema |-> SchemaReplyText(srv, Head(ts).name),
               calls |-> Append(calls, [tool |-> Head(ts).name, arguments |-> "{}"]),
               raised |-> FALSE]
         ELSE TrySchemaTools(srv, Tail(ts),
                             Append(calls, [tool |-> Head(ts).name, arguments |-> "{}"]))

\* Then every SQL-capable tool is tried with each fallback query in turn.
RECURSIVE TrySqlTools(_, _, _)
TrySqlTools(srv, ts, calls) ==
    IF ts = << >> THEN [found |-> FALSE, schema |-> << >>, calls |-> calls]
    ELSE IF ~Head(ts).sqlKw THEN TrySqlTools(srv, Tail(ts), calls)
    ELSE IF SchemaReplyUsable(srv, Head(ts).name)
         THEN [found |-> TRUE,
               schema |-> <<W("Available tables:")>> \o SchemaReplyText(srv, Head(ts).name),
               calls |-> Append(calls, [tool |-> Head(ts).name,
                                        arguments |-> FallbackQueries[1]])]
         ELSE TrySqlTools(srv, Tail(ts),
                          calls \o [q \in DOMAIN FallbackQueries |->
                                       [tool |-> Head(ts).name,
                                        arguments |-> FallbackQueries[q]]])

DiscoverSchemaViaTools(c, srv) ==
    LET first == TrySchemaTools(srv, c.tools, << >>)
        second == TrySqlTools(srv, c.tools, first.calls)
        schema == IF first.found THEN first.schema
                  ELSE IF second.found THEN second.schema
                  ELSE DynamicDiscoveryPlaceholder
        calls == IF first.found \/ first.raised THEN first.calls ELSE second.calls
    IN [client |-> IF first.raised THEN c ELSE [c EXCEPT !.schema_description = schema],
        reqs |-> [NoReqs EXCEPT !.call_tool = Len(calls)],
        raised |-> first.raised,
        calls |-> calls]

\* ---- _discover_schema
Bucket(parts, category) ==
    SortByPriority(SelectSeq(parts, LAMBDA p : p.category = category))

\* the schema text after the resources were read: the schema bucket, else
\* (when the text is still empty) all contents, else the list of resources
CombineSchema(current, schema_content_parts, all_resource_contents, listed) ==
    IF schema_content_parts # << >> THEN JoinParts(schema_content_parts)
    ELSE IF current # << >> THEN current
    ELSE IF all_resource_contents # << >>
    THEN BuildSchemaDescriptionFromContents(all_resource_contents)
    ELSE BuildSchemaDescription(listed)

\* the slip of appending the guidance read to the guidance held
CombineGuidanceAppends(current, sql_guidance_parts) ==
    current \o JoinParts(sql_guidance_parts)

CombineGuidance(current, sql_guidance_parts) ==
    IF sql_guidance_parts # << >> THEN JoinParts(sql_guidance_parts) ELSE current

CombineContext(current, other_content_parts) ==
    IF other_content_parts # << >> THEN DictOf(<< >>, other_content_parts) ELSE current

\* the branch of _discover_schema taken when the server lists resources
DiscoverFromResources(c, listed, nRead, parts) ==
    [client |->
        [c EXCEPT !.resources = listed,
                  !.schema_description =
                      CombineSchema(c.schema_description, Bucket(parts, "schema"),
                                    DictOf(<< >>, parts), listed),
                  !.sql_guidance = CombineGuidance(c.sql_guidance, Bucket(parts, "guidance")),
                  !.additional_context =
                      CombineContext(c.additional_context, Bucket(parts, "other"))],
     reqs |-> [NoReqs EXCEPT !.list_resources = 1, !.read_resource = nRead],
     raised |-> FALSE]

LlmResources(listed) == SortResourcesByPriority(SelectSeq(listed, IsResourceForLlm))

WithListResources(r) ==
    [client |-> r.client, reqs |-> AddReqs(r.reqs, [NoReqs EXCEPT !.list_resources = 1]),
     raised |-> r.raised]

\* the handler of _discover_schema: an exception of the body runs the tool
\* fallback a second time, outside any try
RetryViaTools(first, srv) ==
    IF ~first.raised THEN first
    ELSE [client |-> DiscoverSchemaViaTools(first.client, srv).client,
          reqs |-> AddReqs(first.reqs, DiscoverSchemaViaTools(first.client, srv).reqs),
          raised |-> DiscoverSchemaViaTools(first.client, srv).raised]

DiscoverSchema(c, srv) ==
    IF srv.resourceList # << >>
    THEN DiscoverFromResources(c, srv.resourceList, Len(LlmResources(srv.resourceList)),
                               ReadParts(srv, LlmResources(srv.resourceList)))
    ELSE WithListResources(RetryViaTools(DiscoverSchemaViaTools(c, srv), srv))

\* ---- initialize(force_refresh)
\* the early return of initialize
\* the slip of testing the flag the wrong way round
InitializeSkipsWhenForced(c, force_refresh) == c.initialized /\ force_refresh

\* if self._initialized and not force_refresh: return
InitializeSkips(c, force_refresh) == c.initialized /\ ~force_refresh

\* the whole call: the client afterwards, the requests sent, and whether the
\* call raised (it re-raises every exception of its body; the flag is set
\* only when schema discovery returned)
WithListTools(d) ==
    [client |-> IF d.raised THEN d.client ELSE [d.client EXCEPT !.initialized = TRUE],
     reqs |-> AddReqs(d.reqs, [NoReqs EXCEPT !.list_tools = 1]),
     raised |-> d.raised]

\* the slip of replacing the catalog before list_tools has answered
InitializeOnResetsCatalog(c, srv, force_refresh) ==
    IF InitializeSkips(c, force_refresh)
    THEN [client |-> c, reqs |-> NoReqs, raised |-> FALSE]
    ELSE IF ~srv.listToolsOk
    THEN [client |-> [c EXCEPT !.tools = << >>, !.tools_description = << >>],
          reqs |-> [NoReqs EXCEPT !.list_tools = 1], raised |-> TRUE]
    ELSE WithListTools(
             DiscoverSchema([c EXCEPT !.tools = srv.toolList,
                                      !.tools_description = BuildToolsDescription(srv.toolList)],
                            srv))

InitializeOn(c, srv, force_refresh) ==
    IF InitializeSkips(c, force_refresh)
    THEN [client |-> c, reqs |-> NoReqs, raised |-> FALSE]
    ELSE IF ~srv.listToolsOk
    THEN [client |-> c, reqs |-> [NoReqs EXCEPT !.list_tools = 1], raised |-> TRUE]
    ELSE WithListTools(
             DiscoverSchema([c EXCEPT !.tools = srv.toolList,
                                      !.tools_description = BuildToolsDescription(srv.toolList)],
                            srv))

\* ---- refresh_schema()
\* the fields refresh_schema resets before it rediscovers
RefreshClears(c) ==
    [c EXCEPT !.schema_description = << >>,
              !.additional_context = << >>,
              !.data_content = << >>,
              !.data_content_discovered = FALSE]

RefreshSchemaOn(c, srv) == DiscoverSchema(RefreshClears(c), srv)

\* ---- discover_data_content(tables=None, force_refresh)
\* str.lower() of the column names used below
LowerColumn(c) ==
    CASE c = "Sym" -> "sym"
      [] c = "Headline" -> "headline"
      [] OTHER -> c

\* dict access: key in d, d[key]
DictHas(d, key) == \E i \in DOMAIN d : d[i].key = key
DictGet(d, key) == d[CHOOSE i \in DOMAIN d : d[i].key = key].val

\* The columns the schema text lists for a table it names.
TableColumns(name) ==
    CASE name = "trades" -> <<"trade_date", "Sym", "ticker", "Headline", "price", "ts">>
      [] name = "news" -> <<"date", "title", "body">>
      [] name = "quotes" -> <<"ticker", "bid">>
      [] OTHER -> << >>

\* _extract_tables_and_columns_from_schema: the tables the schema text names,
\* in order, each with the columns the text lists for it.  The text of
\* kdbx_describe_tables names the table daily without columns; a "table"
\* section names a table with its columns.
RECURSIVE ExtractTablesAndColumnsFromSchema(_)
ExtractTablesAndColumnsFromSchema(text) ==
    IF text = << >> THEN << >>
    ELSE (IF Head(text).k = "body" /\ Head(text).v = "kdbx://tables"
          THEN <<[table |-> "daily", columns |-> << >>]>>
          ELSE IF Head(text).k = "table"
          THEN <<[table |-> Head(text).v, columns |-> TableColumns(Head(text).v)]>>
          ELSE << >>)
         \o ExtractTablesAndColumnsFromSchema(Tail(text))

\* _extract_tables_from_schema: the keys of the above
ExtractTablesFromSchema(text) ==
    [i \in DOMAIN ExtractTablesAndColumnsFromSchema(text) |->
        ExtractTablesAndColumnsFromSchema(text)[i].table]

\* What the probes of one run find: whether the SQL table listing answers,
\* whether SELECT * LIMIT 1 yields columns, and what the COUNT(*) query yields
\* (an error, an integer, or a value that is not a number).
Probes == [tablesListed : BOOLEAN, columns : BOOLEAN, row_count : {"error", "int", "str"}]
DiscoveryQueries == <<"SHOW TABLES", "SELECT name FROM tables",
                      "SELECT table_name FROM information_schema.tables">>

\* What the server answers to the probes of one table: the columns of the
\* SELECT * LIMIT 1 row (none on an error), and for the row count, the
\* distinct symbols, the date range and the sample text either an error
\* result or a result holding the value.
ProbeReply(columns, row_count, symbols, date_range, sample_text) ==
    [columns |-> columns, row_count |-> row_count, symbols |-> symbols,
     date_range |-> date_range, sample_text |-> sample_text]
ReplyOf(probe) ==
    ProbeReply(IF probe.columns THEN <<"price">> ELSE << >>, probe.row_count,
               "error", "error", "error")

\* one run: whether the SQL table listing answers, and the replies to the
\* probes of each table, in the order the tables are probed
RunOf(probe) == [tablesListed |-> probe.tablesListed, replies |-> <<ReplyOf(probe)>>]

\* the configured column-name patterns (the defaults)
SymbolPatterns == {"sym", "symbol", "ticker", "stock", "instrument", "security"}
DatePatterns == {"date", "datetime", "time", "timestamp", "dt", "ts"}
TextPatterns == {"title", "summary", "description", "text", "content", "name",
                 "headline", "body", "message", "comment", "note"}

\* [c for c in columns if c.lower() in patterns]
ColumnsMatching(columns, patterns) ==
    SelectSeq(columns, LAMBDA c : LowerColumn(c) \in patterns)

\* the slip of storing a field whatever the probe returned
ProbeAnsweredAlways(result) == TRUE

\* not result.get("error") and not result.get("isError")
ProbeAnswered(result) == result # "error"

\* the columns probed: those of the schema, else those of SELECT * LIMIT 1
ColumnsOf(schema_columns, reply) ==
    IF schema_columns # << >> THEN schema_columns ELSE reply.columns

WithRowCount(info, reply) ==
    IF ProbeAnswered(reply.row_count) THEN DictPut(info, "row_count", reply.row_count)
    ELSE info

WithSymbols(info, symbol_columns, reply) ==
    IF symbol_columns # << >> /\ ProbeAnswered(reply.symbols)
    THEN DictPut(DictPut(info, "symbols", <<"AAPL", "MSFT">>),
                 "symbol_column", symbol_columns[1])
    ELSE info

WithDateRange(info, date_columns, reply) ==
    IF date_columns # << >> /\ ProbeAnswered(reply.date_range)
    THEN DictPut(DictPut(info, "date_range", [min |-> "2023-01-01", max |-> "2024-01-15"]),
                 "date_column", date_columns[1])
    ELSE info

WithSampleText(info, text_columns, reply) ==
    IF text_columns = << >> THEN info
    ELSE IF ProbeAnswered(reply.sample_text)
    THEN DictPut(DictPut(info, "text_columns", text_columns),
                 "sample_text", <<[key |-> text_columns[1], val |-> <<"sample">>]>>)
    ELSE DictPut(info, "text_columns", text_columns)

\* table_info after the probes of one table
InfoOf(columns, reply) ==
    WithSampleText(
        WithDateRange(
            WithSymbols(WithRowCount(<<[key |-> "columns", val |-> columns]>>, reply),
                        ColumnsMatching(columns, SymbolPatterns), reply),
            ColumnsMatching(columns, DatePatterns), reply),
        ColumnsMatching(columns, TextPatterns), reply)
TableInfo(schema_columns, reply) == InfoOf(ColumnsOf(schema_columns, reply), reply)

\* the tool calls made for one table
CallsOf(schema_columns, columns) ==
    (IF schema_columns = << >> THEN 1 ELSE 0) + 1
    + (IF ColumnsMatching(columns, SymbolPatterns) # << >> THEN 1 ELSE 0)
    + (IF ColumnsMatching(columns, DatePatterns) # << >> THEN 1 ELSE 0)
    + (IF ColumnsMatching(columns, TextPatterns) # << >> THEN 1 ELSE 0)
ProbeCalls(schema_columns, reply) == CallsOf(schema_columns, ColumnsOf(schema_columns, reply))

\* the early return on a cached result
DataContentCached(c, force_refresh) == c.data_content_discovered /\ ~force_refresh

\* the tables to probe: those of the schema text, else those of _discover_tables_via_sql
TableList(fromSchema, run) ==
    IF fromSchema # << >> THEN fromSchema
    ELSE IF run.tablesListed THEN <<[table |-> "daily", columns |-> << >>]>> ELSE << >>

\* the calls _discover_tables_via_sql makes
SqlDiscoveryCalls(fromSchema, run) ==
    IF fromSchema # << >> THEN 0
    ELSE IF run.tablesListed THEN 1 ELSE Len(DiscoveryQueries)

\* the end of the loop body: a table is stored when its columns are known
StoreTable(dc, table, info) ==
    IF DictGet(info, "columns") # << >> THEN DictPut(dc, table, info) ELSE dc

\* the loop over the tables
RECURSIVE ProbeLoop(_, _, _, _)
ProbeLoop(dc, table_list, replies, calls) ==
    IF table_list = << >> THEN [data_content |-> dc, calls |-> calls]
    ELSE ProbeLoop(StoreTable(dc, Head(table_list).table,
                              TableInfo(Head(table_list).columns, Head(replies))),
                   Tail(table_list), Tail(replies),
                   calls + ProbeCalls(Head(table_list).columns, Head(replies)))

ProbeTables(c, reqs, table_list, sqlCalls, run) ==
    IF table_list = << >>
    THEN [client |-> c,
          reqs |-> AddReqs(reqs, [NoReqs EXCEPT !.call_tool = sqlCalls]),
          raised |-> FALSE]
    ELSE [client |-> [c EXCEPT !.data_content =
                                   ProbeLoop(c.data_content, table_list, run.replies, 0).data_content,
                               !.data_content_discovered = TRUE],
          reqs |-> AddReqs(reqs, [NoReqs EXCEPT !.call_tool =
                       sqlCalls + ProbeLoop(c.data_content, table_list, run.replies, 0).calls]),
          raised |-> FALSE]

DiscoverAfterInitialize(init, fromSchema, run) ==
    IF init.raised THEN init
    ELSE ProbeTables(init.client, init.reqs, TableList(fromSchema, run),
                     SqlDiscoveryCalls(fromSchema, run), run)

DiscoverUncached(init, run) ==
    DiscoverAfterInitialize(
        init, ExtractTablesAndColumnsFromSchema(init.client.schema_description), run)

DiscoverDataContentOn(c, srv, force_refresh, run) ==
    IF DataContentCached(c, force_refresh)
    THEN [client |-> c, reqs |-> NoReqs, raised |-> FALSE]
    ELSE DiscoverUncached(InitializeOn(c, srv, FALSE), run)

\* get_data_content_description: the format specification "," raises on a
\* row_count that is not a number
DescriptionRaises(dc) ==
    \E i \in DOMAIN dc :
        DictHas(dc[i].val, "row_count") /\ DictGet(dc[i].val, "row_count") = "str"

\* symbol_cols = set(): the symbol columns of the tables
SymbolCols(dc) ==
    {DictGet(dc[i].val, "symbol_column") :
        i \in {j \in DOMAIN dc : DictHas(dc[j].val, "symbol_column")}}

\* The orders in which a set can be iterated: the order of a set of strings
\* follows their hashes, which are salted anew in every process.
SetOrders(S) ==
    {order \in [1..Cardinality(S) -> S] :
        \A i, j \in 1..Cardinality(S) : i # j => order[i] # order[j]}

\* the text for an iteration order symbol_cols of the set of symbol columns
GetDataContentDescription(dc, symbol_cols) ==
    IF dc = << >> THEN <<W("No data content discovered yet.")>>
    ELSE <<W("## Available Data Content")>>
         \o (IF symbol_cols = << >> THEN << >>
             ELSE <<W("**IMPORTANT**: Use")>>
                  \o [i \in DOMAIN symbol_cols |-> Tok("column", symbol_cols[i], 0)])
         \o Flatten([i \in DOMAIN dc |->
                <<Tok("### Table", dc[i].key, 0)>>
                \o (IF ~DictHas(dc[i].val, "symbol_column") THEN << >>
                    ELSE <<Tok("Available values in", DictGet(dc[i].val, "symbol_column"), 0)>>)
                \o (IF ~DictHas(dc[i].val, "row_count") THEN << >>
                    ELSE <<Tok("Total rows", DictGet(dc[i].val, "row_count"), 0)>>)])

\* ---- _extract_json
\* A response is a sequence of lexical pieces: the tags "<think>" and
\* "</think>", a code fence (three backquotes), the braces, the members "a" and "b" of a JSON
\* object (a key with a scalar value), "k:" (a key whose value follows) and
\* "junk" (prose).  White space is left out.
MaxSegments == 4
ObjA == <<"{", "a", "}">>
ObjB == <<"{", "b", "}">>
Nested == <<"{", "k:", "{", "a", "}", "}">>
Unparsable == <<"{", "junk", "}">>
Segments ==
    { <<"junk">>, <<"{">>, <<"}">>, <<"fence">>, <<"<think>">>, <<"</think>">>,
      ObjA, ObjB, Nested, Unparsable }
RECURSIVE Texts(_)
Texts(n) ==
    IF n = 0 THEN {<< >>}
    ELSE Texts(n - 1) \cup {x \o seg : x \in Texts(n - 1), seg \in Segments}

\* json.loads(candidate) succeeds: the candidate is one JSON object
RECURSIVE ParseObject(_, _), ParseMembers(_, _)
ParseObject(text, i) ==
    IF i <= Len(text) /\ text[i] = "{" THEN ParseMembers(text, i + 1) ELSE 0
ParseMembers(text, i) ==
    IF i > Len(text) THEN 0
    ELSE IF text[i] = "}" THEN i + 1
    ELSE IF text[i] \in {"a", "b"} THEN ParseMembers(text, i + 1)
    ELSE IF text[i] = "k:" /\ ParseObject(text, i + 1) # 0
    THEN ParseMembers(text, ParseObject(text, i + 1))
    ELSE 0
Parses(candidate) == ParseObject(candidate, 1) = Len(candidate) + 1

\* re.sub(r'<think>[\s\S]*?</think>', '', text)
RECURSIVE StripClosedThink(_)
StripClosedThink(text) ==
    IF text = << >> THEN << >>
    ELSE IF Head(text) = "<think>" /\ \E j \in 2..Len(text) : text[j] = "</think>"
    THEN StripClosedThink(
             SubSeq(text,
                    1 + CHOOSE j \in 2..Len(text) :
                            /\ text[j] = "</think>"
                            /\ \A k \in 2..(j - 1) : text[k] # "</think>",
                    Len(text)))
    ELSE <<Head(text)>> \o StripClosedThink(Tail(text))

\* re.sub(r'<think>[\s\S]*$', '', text)
RECURSIVE StripOpenThink(_)
StripOpenThink(text) ==
    IF text = << >> \/ Head(text) = "<think>" THEN << >>
    ELSE <<Head(text)>> \o StripOpenThink(Tail(text))

StripThink(text) == StripOpenThink(StripClosedThink(text))

\* what _extract_json returns: None or a string
None == [found |-> FALSE, text |-> << >>]
Some(candidate) == [found |-> TRUE, text |-> candidate]

\* re.search of a fenced block holding braces (code_block_match): the places where a
\* match can start, and the group of the leftmost, longest match
FenceStarts(text) ==
    {i \in 1..(Len(text) - 1) :
        /\ text[i] = "fence"
        /\ text[i + 1] = "{"
        /\ \E j \in (i + 1)..(Len(text) - 1) : text[j] = "}" /\ text[j + 1] = "fence"}
FenceEnds(text, i) ==
    {j \in (i + 1)..(Len(text) - 1) : text[j] = "}" /\ text[j + 1] = "fence"}
SetMin(S) == CHOOSE x \in S : \A y \in S : x <= y
SetMax(S) == CHOOSE x \in S : \A y \in S : x >= y
CodeBlockCandidate(text) ==
    SubSeq(text, SetMin(FenceStarts(text)) + 1,
           SetMax(FenceEnds(text, SetMin(FenceStarts(text)))))

\* text.find('{') and text.rfind('}'), 0 when absent
FirstBrace(text) ==
    IF \E i \in DOMAIN text : text[i] = "{"
    THEN SetMin({i \in DOMAIN text : text[i] = "{"}) ELSE 0
LastBrace(text) ==
    IF \E i \in DOMAIN text : text[i] = "}"
    THEN SetMax({i \in DOMAIN text : text[i] = "}"}) ELSE 0

\* the balanced-brace loop from position i on; start is 0 when unset
RECURSIVE BalancedScan(_, _, _, _)
BalancedScan(text, i, depth, start) ==
    IF i > Len(text) THEN None
    ELSE IF text[i] = "{"
    THEN BalancedScan(text, i + 1, depth + 1, IF depth = 0 THEN i ELSE start)
    ELSE IF text[i] = "}"
    THEN IF depth - 1 = 0 /\ start # 0
         THEN IF Parses(SubSeq(text, start, i)) THEN Some(SubSeq(text, start, i))
              ELSE BalancedScan(text, i + 1, depth - 1, 0)
         ELSE BalancedScan(text, i + 1, depth - 1, start)
    ELSE BalancedScan(text, i + 1, depth, start)

\* from "first_brace = text.find('{')" to the end
BraceStrategies(text) ==
    IF FirstBrace(text) = 0 THEN None
    ELSE IF LastBrace(text) = 0 \/ LastBrace(text) <= FirstBrace(text) THEN None
    ELSE IF Parses(SubSeq(text, FirstBrace(text), LastBrace(text)))
    THEN Some(SubSeq(text, FirstBrace(text), LastBrace(text)))
    ELSE BalancedScan(text, 1, 0, 0)

\* the slip of leaving out the code-block strategy
ExtractFromStrippedWithoutCodeBlock(text) ==
    IF text = << >> THEN None ELSE BraceStrategies(text)

\* _extract_json after the think tags are stripped
ExtractFromStripped(text) ==
    IF text = << >> THEN None
    ELSE IF FenceStarts(text) # {} /\ Parses(CodeBlockCandidate(text))
    THEN Some(CodeBlockCandidate(text))
    ELSE BraceStrategies(text)

ExtractJson(text) == ExtractFromStripped(StripThink(text))

\* ---- plans
\* A step of a plan as the model returned it: an object with a tool, arguments
\* and a purpose; an object whose purpose is null; or a value that is no object.
Step(kind, tool, arguments, purpose) ==
    [kind |-> kind, tool |-> tool, arguments |-> arguments, purpose |-> purpose]
PlanOf(data_available, reasoning, limitations, steps) ==
    [data_available |-> data_available, reasoning |-> reasoning,
     limitations |-> limitations, steps |-> steps]
NoPlan == PlanOf("absent", << >>, << >>, << >>)

\* ---- the client's life cycle: public calls made while no query runs
Op(name, force, raised) == [op |-> name, force |-> force, raised |-> raised]

\* no method is called directly and no coroutine runs
UnitIdle ==
    /\ callee = "none"
    /\ args = << >>
    /\ ret = [done |-> FALSE, value |-> << >>]
    /\ tasks = << >>
    /\ redis = << >>

\* the fields of an invocation before any invocation has started
QueryIdle ==
    /\ pc = "idle"
    /\ mode = "none"
    /\ max_iterations = 0
    /\ schema_question = FALSE
    /\ iteration = 0
    /\ stepIdx = 0
    /\ inflight = {}
    /\ iteration_results = << >>
    /\ all_tool_results = << >>
    /\ discovered_schema = << >>
    /\ schema_discovery_done = FALSE
    /\ planLog = << >>
    /\ callLog = << >>
    /\ synthCalls = 0
    /\ outcome = "none"
    /\ answer = << >>
    /\ returned = << >>
    /\ sql_query = << >>
    /\ rows = << >>
    /\ llm_calls = << >>

\* the server changes what it exposes; its content gets a new version
ServerChange ==
    /\ pc = "idle"
    /\ changes < MaxChanges
    /\ server' \in ServersAt(server.ver + 1)
    /\ changes' = changes + 1
    /\ lastOp' = Op("server_change", FALSE, FALSE)
    /\ lastReqs' = NoReqs
    /\ UNCHANGED <<clientVars, queryVars, unitVars>>

\* a public call ends: the client is as the call left it
Finish(r, name, force_refresh) ==
    /\ SetClient(r.client)
    /\ lastOp' = Op(name, force_refresh, r.raised)
    /\ lastReqs' = r.reqs

Initialize(force_refresh) ==
    /\ pc = "idle"
    /\ Finish(InitializeOn(Client, server, force_refresh), "initialize", force_refresh)
    /\ UNCHANGED <<server, changes, queryVars, unitVars>>

RefreshSchema ==
    /\ pc = "idle"
    /\ Finish(RefreshSchemaOn(Client, server), "refresh_schema", FALSE)
    /\ UNCHANGED <<server, changes, queryVars, unitVars>>

DiscoverDataContent(force_refresh) ==
    /\ pc = "idle"
    /\ \E probe \in Probes :
         Finish(DiscoverDataContentOn(Client, server, force_refresh, RunOf(probe)),
                "discover_data_content", force_refresh)
    /\ UNCHANGED <<server, changes, queryVars, unitVars>>

Init ==
    /\ SetClientNow(NewClient)
    /\ server \in ServersAt(1)
    /\ changes = 0
    /\ lastOp = Op("construct", FALSE, FALSE)
    /\ lastReqs = NoReqs
    /\ plan = NoPlan
    /\ QueryIdle
    /\ UnitIdle

Next ==
    \/ ServerChange
    \/ \E force_refresh \in BOOLEAN : Initialize(force_refresh)
    \/ RefreshSchema
    \/ \E force_refresh \in BOOLEAN : DiscoverDataContent(force_refresh)

Spec == Init /\ [][Next]_vars

\* ---- the model's answers to the planning prompt
ReasoningText == <<W("R")>>
LimitationsText == <<W("L")>>
\* a JSON null where the prompt asks for the reasoning
NullReasoning == <<Tok("null", "None", 0)>>
Reasonings == {ReasoningText, NullReasoning}
BlankLine == W("blank line")
Sentinel == <<W("Unable to answer with available tools.")>>

\* purposes as the model words them, and str.lower() on their words
SchemaPurpose == <<"Discover", "Schema">>
DataPurpose == <<"Fetch", "rows">>
NullPurpose == <<"null">>
Lower(w) ==
    CASE w = "Discover" -> "discover"
      [] w = "Schema" -> "schema"
      [] w = "Fetch" -> "fetch"
      [] OTHER -> w

SchemaStep == Step("object", "kdbx_run_sql_query", "SELECT name FROM tables", SchemaPurpose)
DataStep == Step("object", "kdbx_run_sql_query", "SELECT * FROM daily LIMIT 10", DataPurpose)
NullPurposeStep == Step("null_purpose", "kdbx_run_sql_query", "SELECT * FROM daily", NullPurpose)
NotObjectStep == Step("not_object", "none", "none", NullPurpose)
StepValues == {SchemaStep, DataStep, NullPurposeStep, NotObjectStep}

StepLists(n) == UNION {[1..k -> StepValues] : k \in 0..n}
Min(a, b) == IF a < b THEN a ELSE b

\* The JSON plans the model may answer with when room is left for `room` more
\* tool calls: plans that declare the data unavailable, plans without steps,
\* and plans to execute (whose reasoning the loop never reads).
JsonPlans(room) ==
    {PlanOf("false", r, l, st) :
        r \in Reasonings, l \in {<< >>, LimitationsText}, st \in StepLists(Min(1, room))}
    \cup {PlanOf("true", r, << >>, << >>) : r \in Reasonings}
    \cup {PlanOf("true", ReasoningText, << >>, st) : st \in StepLists(Min(MaxSteps, room))}

\* What llm.ainvoke does on the planning prompt: it raises, or answers with a
\* JSON plan, with text that holds a SELECT statement but no JSON, or with
\* text that holds neither.
PlanResponses(room) ==
    {[kind |-> "json", plan |-> p] : p \in JsonPlans(room)}
    \cup {[kind |-> k, plan |-> NoPlan] : k \in {"raise", "garbage"}}
    \cup {[kind |-> "sql", plan |-> NoPlan] : k \in IF room > 0 THEN {1} ELSE {}}

\* _plan_tool_usage, after the prompt is built: the plan it returns
PlanToolUsage(response) ==
    CASE response.kind = "json" -> response.plan
      [] response.kind = "sql" ->
            PlanOf("absent", <<W("Extracted SQL from response (JSON parsing failed)")>>, << >>,
                   <<Step("object", "kdbx_run_sql_query", "extracted", <<"Execute", "user", "query">>)>>)
      [] response.kind = "garbage" ->
            PlanOf("absent", <<W("Failed to parse LLM response.")>>, << >>, << >>)
      [] response.kind = "raise" ->
            PlanOf("absent", <<W("Error: "), W("llm failure")>>, << >>, << >>)

\* the schema section of the planning prompt
PromptSchema(schema, additional_schema) ==
    IF additional_schema # << >>
    THEN schema \o <<W("## Dynamically Discovered Schema:")>> \o additional_schema
    ELSE schema

\* one planning call: what went into its prompt and the plan it returned
PlanningCall(schema, additional_schema, p) ==
    [schema_section |-> PromptSchema(schema, additional_schema),
     additional_schema |-> additional_schema,
     plan |-> p]

\* the answer built for a plan with data_available false
DataUnavailableAnswer(p) ==
    IF p.limitations # << >> THEN p.reasoning \o <<BlankLine>> \o p.limitations
    ELSE p.reasoning

\* answer[:100] in the log line that precedes the return: a null has no slice
AnswerPreviewRaises(a) == a = NullReasoning

\* the keyword test on the lower-cased purpose of a step
IsSchemaDiscovery(purpose) ==
    \/ \E i \in DOMAIN purpose : Lower(purpose[i]) \in {"schema", "discover", "describe", "metadata"}
    \/ \E i \in DOMAIN purpose :
          i + 1 \in DOMAIN purpose /\ Lower(purpose[i]) = "list" /\ Lower(purpose[i + 1]) = "tables"

\* ---- what the server may answer to a tool call of a query
RawReplies(ver) ==
    { RawOkText(<<Tok("body", "TABLE x", ver)>>), RawOkText(<<Tok("body", "TABLE y", ver)>>),
      RawOkNoText, RawErrText, RawRaise }

\* ---- intelligent_query and simple_chat_query: one invocation
Return(a, r) ==
    /\ answer' = a
    /\ returned' = r
    /\ outcome' = "returned"
    /\ pc' = "done"

\* an exception leaves the entry point
Raise ==
    /\ outcome' = "raised"
    /\ pc' = "done"
    /\ UNCHANGED <<answer, returned>>

\* llm.ainvoke at one of the call sites: whether it raised, and the content of
\* the response where the model reads it word by word
LlmCall(site, raised, content) == [site |-> site, raised |-> raised, content |-> content]

CallIntelligentQuery(mi) ==
    /\ pc = "idle"
    /\ pc' = "ensure_initialized"
    /\ mode' = "intelligent_query"
    /\ max_iterations' = mi
    /\ UNCHANGED <<clientVars, envVars, unitVars, llm_calls, schema_question, iteration, plan, stepIdx, inflight,
                   iteration_results, all_tool_results, discovered_schema,
                   schema_discovery_done, planLog, callLog, synthCalls, outcome, answer,
                   returned, sql_query, rows>>

CallSimpleChatQuery(sq) ==
    /\ pc = "idle"
    /\ pc' = "ensure_initialized"
    /\ mode' = "simple_chat_query"
    /\ schema_question' = sq
    /\ UNCHANGED <<clientVars, envVars, unitVars, llm_calls, max_iterations, iteration, plan, stepIdx, inflight,
                   iteration_results, all_tool_results, discovered_schema,
                   schema_discovery_done, planLog, callLog, synthCalls, outcome, answer,
                   returned, sql_query, rows>>

\* if not self._initialized: await self.initialize()
Initialized(r) ==
    /\ SetClient(r.client)
    /\ pc' = IF r.raised THEN "done" ELSE "ensure_data_content"
    /\ outcome' = IF r.raised THEN "raised" ELSE outcome

EnsureInitialized ==
    /\ pc = "ensure_initialized"
    /\ IF initialized
       THEN /\ pc' = "ensure_data_content"
            /\ UNCHANGED <<clientVars, outcome>>
       ELSE Initialized(InitializeOn(Client, server, FALSE))
    /\ UNCHANGED <<envVars, unitVars, llm_calls, mode, max_iterations, schema_question, iteration, plan, stepIdx,
                   inflight, iteration_results, all_tool_results, discovered_schema,
                   schema_discovery_done, planLog, callLog, synthCalls, answer, returned,
                   sql_query, rows>>

\* what the probes of a query's own discovery find: a table with columns,
\* whose row count is a number or text
QueryProbes ==
    {probe \in Probes : probe.tablesListed /\ probe.columns /\ probe.row_count # "error"}

\* if not self._data_content_discovered: await self.discover_data_content()
\* and, in intelligent_query, the entry of the loop over range(max_iterations)
EnsureDataContent ==
    /\ pc = "ensure_data_content"
    /\ IF data_content_discovered
       THEN UNCHANGED clientVars
       ELSE \E probe \in QueryProbes :
               SetClient(DiscoverDataContentOn(Client, server, FALSE, RunOf(probe)).client)
    /\ pc' = IF mode = "simple_chat_query" THEN "schema_question"
             ELSE IF max_iterations = 0 THEN "synthesize" ELSE "plan"
    /\ UNCHANGED <<envVars, unitVars, llm_calls, mode, max_iterations, schema_question, iteration, plan, stepIdx,
                   inflight, iteration_results, all_tool_results, discovered_schema,
                   schema_discovery_done, planLog, callLog, synthCalls, outcome, answer,
                   returned, sql_query, rows>>

\* plan.get("data_available") is False
DataUnavailable(p) == p.data_available = "false"

\* the slip of returning on empty steps whatever the iteration
NoToolsNeededAnyIteration(p, it) == p.steps = << >>

\* not plan.get("steps"), on the first iteration
NoToolsNeeded(p, it) == p.steps = << >> /\ it = 0

\* the plan is in: return, leave the loop, or execute the steps
Planned(p) ==
    /\ plan' = p
    /\ planLog' = Append(planLog, PlanningCall(schema_description, discovered_schema, p))
    /\ IF DataUnavailable(p) /\ AnswerPreviewRaises(DataUnavailableAnswer(p))
       THEN /\ Raise
            /\ UNCHANGED <<stepIdx, iteration_results, schema_discovery_done>>
       ELSE IF DataUnavailable(p)
       THEN /\ Return(DataUnavailableAnswer(p), << >>)
            /\ UNCHANGED <<stepIdx, iteration_results, schema_discovery_done>>
       ELSE IF NoToolsNeeded(p, iteration)
       THEN /\ Return(p.reasoning, << >>)
            /\ UNCHANGED <<stepIdx, iteration_results, schema_discovery_done>>
       ELSE IF p.steps = << >>
       THEN /\ pc' = "synthesize"
            /\ UNCHANGED <<stepIdx, iteration_results, schema_discovery_done, outcome, answer,
                           returned>>
       ELSE /\ pc' = "execute"
            /\ stepIdx' = 1
            /\ iteration_results' = << >>
            /\ schema_discovery_done' = FALSE
            /\ UNCHANGED <<outcome, answer, returned>>

\* _plan_tool_usage and the checks of the plan that follow it
PlanToolUsageStep ==
    /\ pc = "plan"
    /\ IF DescriptionRaises(data_content)
       THEN /\ Raise
            /\ UNCHANGED <<plan, planLog, stepIdx, iteration_results, schema_discovery_done,
                           llm_calls>>
       ELSE \E response \in PlanResponses(MaxCalls - Len(callLog)) :
               /\ llm_calls' = Append(llm_calls, LlmCall("plan", response.kind = "raise", << >>))
               /\ Planned(PlanToolUsage(response))
    /\ UNCHANGED <<clientVars, envVars, unitVars, mode, max_iterations, schema_question, iteration,
                   inflight, all_tool_results, discovered_schema, callLog, synthCalls,
                   sql_query, rows>>

\* the head of the body of `for step in plan["steps"]`, up to the tool call
ExecuteStep ==
    /\ pc = "execute"
    /\ IF plan.steps[stepIdx].kind # "object"
       THEN /\ Raise
            /\ UNCHANGED inflight
       ELSE /\ inflight' = {[tool |-> plan.steps[stepIdx].tool,
                             arguments |-> plan.steps[stepIdx].arguments]}
            /\ pc' = "await_tool"
            /\ UNCHANGED <<outcome, answer, returned>>
    /\ UNCHANGED <<clientVars, envVars, unitVars, llm_calls, mode, max_iterations, schema_question, iteration, plan,
                   stepIdx, iteration_results, all_tool_results, discovered_schema,
                   schema_discovery_done, planLog, callLog, synthCalls, sql_query, rows>>

\* the slip of leaving the result as call_tool returned it
AnnotateDropsPurpose(result, purpose) == result

\* result["purpose"] = step.get("purpose", "")
Annotate(result, purpose) == [result EXCEPT !.purpose = purpose]

\* the slip of keeping only the results without an error
AccumulateSuccessful(results, result) ==
    IF result.isError THEN results ELSE Append(results, result)

\* all_tool_results.append(result)
Accumulate(results, result) == Append(results, result)

\* the slip of assigning where the code appends
ExtendDiscoveredOverwrites(discovered, result) ==
    IF ~GetError(result) /\ ExtractSchemaFromResult(result.content) # << >>
    THEN <<Tok("Discovered from", result.tool, 0)>> \o ExtractSchemaFromResult(result.content)
    ELSE discovered

\* discovered_schema += f"\n\nDiscovered from {tool_name}:\n{schema_text}"
ExtendDiscovered(discovered, result) ==
    IF ~GetError(result) /\ ExtractSchemaFromResult(result.content) # << >>
    THEN discovered \o <<Tok("Discovered from", result.tool, 0)>>
                    \o ExtractSchemaFromResult(result.content)
    ELSE discovered

\* if schema_discovery_done and iteration < max_iterations - 1: continue
Replans(done, it, mi) == done /\ it < mi - 1

\* the rest of the body of the loop over the steps, and the end of the iteration
Executed(result, isSchema) ==
    /\ inflight' = {}
    /\ iteration_results' = Append(iteration_results, result)
    /\ all_tool_results' = Accumulate(all_tool_results, result)
    /\ callLog' = Append(callLog, [iteration |-> iteration, step |-> stepIdx,
                                   tool |-> plan.steps[stepIdx].tool,
                                   purpose |-> plan.steps[stepIdx].purpose])
    /\ discovered_schema' = IF isSchema THEN ExtendDiscovered(discovered_schema, result)
                            ELSE discovered_schema
    /\ schema_discovery_done' = (schema_discovery_done \/ isSchema)
    /\ IF stepIdx < Len(plan.steps)
       THEN /\ stepIdx' = stepIdx + 1
            /\ pc' = "execute"
            /\ iteration' = iteration
       ELSE IF Replans(schema_discovery_done \/ isSchema, iteration, max_iterations)
       THEN /\ stepIdx' = 0
            /\ pc' = "plan"
            /\ iteration' = iteration + 1
       ELSE /\ stepIdx' = 0
            /\ pc' = "synthesize"
            /\ iteration' = iteration

ToolReturns ==
    /\ pc = "await_tool"
    /\ \E raw \in RawReplies(server.ver) :
          Executed(Annotate(CallTool(plan.steps[stepIdx].tool, plan.steps[stepIdx].arguments, raw),
                            plan.steps[stepIdx].purpose),
                   IsSchemaDiscovery(plan.steps[stepIdx].purpose))
    /\ UNCHANGED <<clientVars, envVars, unitVars, llm_calls, mode, max_iterations, schema_question, plan, planLog,
                   synthCalls, outcome, answer, returned, sql_query, rows>>

\* _synthesize_results: the model's answer, or the raw results when it raises
RawResults(results) ==
    Flatten([i \in DOMAIN results |->
               <<Tok("### Step", results[i].tool, i)>>
               \o (IF GetError(results[i]) THEN <<W("Error: ")>> \o results[i].error
                   ELSE ExtractSchemaFromResult(results[i].content))])

\* the slip of dropping the raw results from the fallback answer
SynthesizeResultsBare(results, llmOk) ==
    IF llmOk THEN <<W("synthesized answer")>>
    ELSE <<W("Error synthesizing results: ")>>

SynthesizeResults(results, llmOk) ==
    IF llmOk THEN <<W("synthesized answer")>>
    ELSE <<W("Error synthesizing results: ")>> \o RawResults(results)

\* the end of intelligent_query, after the loop
Synthesize ==
    /\ pc = "synthesize"
    /\ IF all_tool_results = << >>
       THEN /\ Return(Sentinel, << >>)
            /\ UNCHANGED <<synthCalls, llm_calls>>
       ELSE \E llmOk \in BOOLEAN :
               /\ synthCalls' = synthCalls + 1
               /\ llm_calls' = Append(llm_calls, LlmCall("synthesis", ~llmOk, << >>))
               /\ Return(SynthesizeResults(all_tool_results, llmOk), all_tool_results)
    /\ UNCHANGED <<clientVars, envVars, unitVars, mode, max_iterations, schema_question, iteration, plan,
                   stepIdx, inflight, iteration_results, all_tool_results, discovered_schema,
                   schema_discovery_done, planLog, callLog, sql_query, rows>>

\* ---- simple_chat_query
Return3(a, q, data) ==
    /\ answer' = a
    /\ sql_query' = q
    /\ rows' = data
    /\ outcome' = "returned"
    /\ pc' = "done"

\* _answer_from_schema: the database information put in the prompt
SchemaResourceNames == {"kdbx_describe_tables", "kdbx_sql_query_guidance"}

SchemaInfo(rs, srv, schema) ==
    IF Flatten([i \in DOMAIN rs |->
                  IF rs[i].name \in SchemaResourceNames THEN ReadResource(srv, rs[i]) ELSE << >>]) # << >>
    THEN Flatten([i \in DOMAIN rs |->
                    IF rs[i].name \in SchemaResourceNames /\ ReadResource(srv, rs[i]) # << >>
                    THEN <<Tok("##", rs[i].name, 0)>> \o ReadResource(srv, rs[i])
                    ELSE << >>])
    ELSE schema

\* what llm.ainvoke does on the schema prompt: it raises, or answers with
\* text, which may be empty once stripped
SchemaAnswers == {"raise", "empty", "text"}

\* the schema-question branch of simple_chat_query
SchemaQuestion ==
    /\ pc = "schema_question"
    /\ IF schema_question /\ SchemaInfo(resources, server, schema_description) # << >>
       THEN \E reply \in SchemaAnswers :
               /\ llm_calls' = Append(llm_calls, LlmCall("schema", reply = "raise", << >>))
               /\ IF reply = "text"
                  THEN Return3(<<W("schema answer")>>, << >>, << >>)
                  ELSE /\ pc' = "generate_sql"
                       /\ UNCHANGED <<answer, sql_query, rows, outcome>>
       ELSE /\ pc' = "generate_sql"
            /\ UNCHANGED <<answer, sql_query, rows, outcome, llm_calls>>
    /\ UNCHANGED <<clientVars, envVars, unitVars, mode, max_iterations, schema_question, iteration, plan,
                   stepIdx, inflight, iteration_results, all_tool_results, discovered_schema,
                   schema_discovery_done, planLog, callLog, synthCalls, returned>>

\* What the model answers to the SQL prompt, as words: a bare statement in
\* either case, a statement in quotes, in a fenced block, with escaped quotes
\* or after some prose, a statement inside or after a think block, and text
\* without a statement.
SqlResponses ==
    { <<"SELECT", "1">>, <<"select", "1">>, <<"'", "SELECT", "1", "'">>,
      <<"Here:", "SELECT", "1">>, <<"fence_sql", "SELECT", "\\\"sym\\\"", "fence">>,
      <<"<think>", "SELECT", "1", "</think>", "select", "1">>,
      <<"<think>", "SELECT", "1", "</think>", "sorry">>,
      <<"<think>", "SELECT", "1">>, <<"no", "SELECT">>, <<"sorry">> }

\* re.sub(r'<think>[\s\S]*?</think>', '', ...): every closed think block goes
RECURSIVE AfterThinkClose(_)
AfterThinkClose(s) ==
    IF s = << >> THEN << >>
    ELSE IF Head(s) = "</think>" THEN Tail(s) ELSE AfterThinkClose(Tail(s))

RECURSIVE SqlStripClosedThink(_)
SqlStripClosedThink(s) ==
    IF s = << >> THEN << >>
    ELSE IF Head(s) = "<think>" /\ (\E i \in DOMAIN Tail(s) : Tail(s)[i] = "</think>")
    THEN SqlStripClosedThink(AfterThinkClose(Tail(s)))
    ELSE <<Head(s)>> \o SqlStripClosedThink(Tail(s))

\* re.sub(r'<think>[\s\S]*$', '', ...): an open think block goes to the end
RECURSIVE SqlStripOpenThink(_)
SqlStripOpenThink(s) ==
    IF s = << >> \/ Head(s) = "<think>" THEN << >>
    ELSE <<Head(s)>> \o SqlStripOpenThink(Tail(s))

\* the two replace() calls that remove the markdown fences
RemoveFences(s) == SelectSeq(s, LAMBDA w : w \notin {"fence_sql", "fence"})

QuoteChars == {"'", "\""}

\* sql_query.strip('"\'')
RECURSIVE StripLeft(_)
StripLeft(s) == IF s # << >> /\ Head(s) \in QuoteChars THEN StripLeft(Tail(s)) ELSE s

RECURSIVE StripRight(_)
StripRight(s) ==
    IF s # << >> /\ s[Len(s)] \in QuoteChars THEN StripRight(SubSeq(s, 1, Len(s) - 1)) ELSE s

StripQuotes(s) == StripRight(StripLeft(s))

\* the two replace() calls that undo backslash-escaped quotes
Unescape(s) == [i \in DOMAIN s |-> IF s[i] = "\\\"sym\\\"" THEN "\"sym\"" ELSE s[i]]

\* the clean-up of the response, before it is validated
CleanResponse(response) ==
    Unescape(StripQuotes(RemoveFences(SqlStripOpenThink(SqlStripClosedThink(response)))))

\* str.upper() of the words used here
UpperWord(w) == IF w = "select" THEN "SELECT" ELSE w

\* sql_query.upper().startswith('SELECT')
StartsWithSelect(s) == s # << >> /\ UpperWord(Head(s)) = "SELECT"

\* re.search(r'SELECT\s+.+', ..., re.IGNORECASE | re.DOTALL): the text from the
\* first SELECT that is followed by more text, to the end
RECURSIVE SearchSelect(_)
SearchSelect(s) ==
    IF Len(s) < 2 THEN << >>
    ELSE IF UpperWord(Head(s)) = "SELECT" THEN s
    ELSE SearchSelect(Tail(s))

\* the slip of sending the cleaned response without validating it
CleanSqlUnvalidated(response) == CleanResponse(response)

\* the statement to run: empty when the response holds none
CleanSql(response) ==
    IF StartsWithSelect(CleanResponse(response)) THEN CleanResponse(response)
    ELSE SearchSelect(CleanResponse(response))

Generated(q) ==
    IF q = << >>
    THEN /\ Return3(<<W("Could not generate SQL for: ")>>, << >>, << >>)
         /\ UNCHANGED inflight
    ELSE /\ sql_query' = q
         /\ inflight' = {[tool |-> "kdbx_run_sql_query", arguments |-> q]}
         /\ pc' = "await_query"
         /\ UNCHANGED <<answer, rows, outcome>>

\* get_data_content_description(), the prompt, and the generation of the SQL
GenerateSql ==
    /\ pc = "generate_sql"
    /\ IF DescriptionRaises(data_content)
       THEN /\ outcome' = "raised"
            /\ pc' = "done"
            /\ UNCHANGED <<answer, sql_query, rows, inflight, llm_calls>>
       ELSE \E llmOk \in BOOLEAN :
               IF llmOk
               THEN \E response \in SqlResponses :
                       /\ llm_calls' = Append(llm_calls, LlmCall("sql", FALSE, response))
                       /\ Generated(CleanSql(response))
               ELSE /\ llm_calls' = Append(llm_calls, LlmCall("sql", TRUE, << >>))
                    /\ Return3(<<W("Error: "), W("llm failure")>>, << >>, << >>)
                    /\ UNCHANGED inflight
    /\ UNCHANGED <<clientVars, envVars, unitVars, mode, max_iterations, schema_question, iteration, plan,
                   stepIdx, iteration_results, all_tool_results, discovered_schema,
                   schema_discovery_done, planLog, callLog, synthCalls, returned>>

\* what the server may answer to the generated statement
QueryReplies(ver) == RawReplies(ver) \cup {RawOkText(<<Tok("json_data", "row", ver)>>)}

\* the rows parsed from the text items of a result
ParseData(content) ==
    Flatten([i \in DOMAIN content |->
               IF content[i].type = "text"
               THEN SelectSeq(content[i].text, LAMBDA t : t.k = "json_data")
               ELSE << >>])

\* _generate_simple_answer, and the answer when no rows came back
SimpleAnswer(data, llmOk) ==
    IF data = << >> THEN <<W("Query executed but returned no data.")>>
    ELSE IF llmOk THEN <<W("simple answer")>>
    ELSE <<Tok("Found rows", "count", Len(data))>>

\* error_msg = result.get("error", "Query execution failed")
ErrorMsg(result) == IF result.hasError THEN result.error ELSE <<W("Query execution failed")>>

\* the model is asked for the answer only when rows came back
AnswerCalls(result, llmOk) ==
    IF GetError(result) \/ result.isError \/ ParseData(result.content) = << >> THEN << >>
    ELSE <<LlmCall("answer", ~llmOk, << >>)>>

QueryDone(result, llmOk) ==
    /\ llm_calls' = llm_calls \o AnswerCalls(result, llmOk)
    /\ IF GetError(result) \/ result.isError
       THEN Return3(<<W("Query failed: ")>> \o ErrorMsg(result), sql_query, << >>)
       ELSE Return3(SimpleAnswer(ParseData(result.content), llmOk), sql_query,
                    ParseData(result.content))

QueryReturns ==
    /\ pc = "await_query"
    /\ inflight' = {}
    /\ \E raw \in QueryReplies(server.ver), llmOk \in BOOLEAN :
          QueryDone(CallTool("kdbx_run_sql_query", sql_query, raw), llmOk)
    /\ UNCHANGED <<clientVars, envVars, unitVars, mode, max_iterations, schema_question, iteration, plan,
                   stepIdx, iteration_results, all_tool_results, discovered_schema,
                   schema_discovery_done, planLog, callLog, synthCalls, returned>>

\* ---- the specification of one invocation of a query entry point
QueryServers ==
    { s \in ServersAt(1) :
        /\ s.resourceList = <<RDescribe, RGuidance, RNotes>>
        /\ s.failing = {}
        /\ s.toolList = <<SqlTool>> }

\* the same servers with the SQL tool listed under another name
QueryTool == [name |-> "run_query", schemaKw |-> FALSE, sqlKw |-> TRUE, described |-> TRUE]
RenamedServers == {[srv EXCEPT !.toolList = <<QueryTool>>] : srv \in QueryServers}

QueryInit ==
    /\ SetClientNow(NewClient)
    /\ server \in QueryServers \cup RenamedServers
    /\ changes = 0
    /\ lastOp = Op("construct", FALSE, FALSE)
    /\ lastReqs = NoReqs
    /\ plan = NoPlan
    /\ QueryIdle
    /\ UnitIdle

QueryNext ==
    \/ \E mi \in 0..MaxIterArg : CallIntelligentQuery(mi)
    \/ \E sq \in BOOLEAN : CallSimpleChatQuery(sq)
    \/ EnsureInitialized
    \/ EnsureDataContent
    \/ PlanToolUsageStep
    \/ ExecuteStep
    \/ ToolReturns
    \/ Synthesize
    \/ SchemaQuestion
    \/ GenerateSql
    \/ QueryReturns

QuerySpec == QueryInit /\ [][QueryNext]_vars

\* ---- properties of one invocation (checked under QuerySpec)
IntelligentQueryDone == mode = "intelligent_query" /\ pc = "done"

\* C1: once initialization has succeeded, intelligent_query and
\* simple_chat_query never raise: whatever the model answers (steps that are
\* not objects, a null purpose), whatever the tools return and whatever the
\* data-content cache holds (a row count that is no integer), the invocation
\* ends by returning its tuple.
C1_QueriesNeverRaise == (pc = "done" /\ initialized) => outcome = "returned"

\* a plan has a step that the loop classifies as schema discovery
HasSchemaStep(p) ==
    \E i \in DOMAIN p.steps :
        p.steps[i].kind = "object" /\ IsSchemaDiscovery(p.steps[i].purpose)

\* C2: in intelligent_query the number of planning calls never exceeds
\* max_iterations, and when every iteration's plan holds a schema-discovery
\* step (and none declares the data unavailable) the invocation makes exactly
\* max_iterations planning calls and then synthesizes.
C2_ExactlyMaxIterationsPlans ==
    /\ Len(planLog) <= max_iterations
    /\ (/\ IntelligentQueryDone
        /\ planLog # << >>
        /\ \A k \in DOMAIN planLog :
              HasSchemaStep(planLog[k].plan) /\ ~DataUnavailable(planLog[k].plan))
       => (Len(planLog) = max_iterations /\ synthCalls = 1)

\* C3: when the planner's plan declares data_available false, intelligent_query
\* returns the reasoning, a blank line and the limitations (the reasoning alone
\* when the limitations are empty) with an empty tool-result list, and executes
\* none of the steps of that plan.
C3_DataUnavailableShortCircuits ==
    (IntelligentQueryDone /\ planLog # << >> /\ DataUnavailable(plan))
    => /\ outcome = "returned"
       /\ answer = (IF plan.limitations # << >>
                    THEN plan.reasoning \o <<BlankLine>> \o plan.limitations
                    ELSE plan.reasoning)
       /\ returned = << >>
       /\ \A j \in DOMAIN callLog : callLog[j].iteration < Len(planLog) - 1

IsPrefix(a, b) == Len(a) <= Len(b) /\ SubSeq(b, 1, Len(a)) = a
IsSuffix(a, b) == Len(a) <= Len(b) /\ SubSeq(b, Len(b) - Len(a) + 1, Len(b)) = a
Contains(text, part) ==
    \E i \in 0..(Len(text) - Len(part)) : SubSeq(text, i + 1, i + Len(part)) = part

\* the results of the schema-discovery steps that succeeded with text, among
\* the calls made before planning call k
SuccessfulDiscoveries(k) ==
    { j \in DOMAIN callLog :
        /\ callLog[j].iteration < k - 1
        /\ IsSchemaDiscovery(callLog[j].purpose)
        /\ ~all_tool_results[j].isError
        /\ ExtractSchemaFromResult(all_tool_results[j].content) # << >> }

\* C4: the discovered schema accumulates: the additional schema text of
\* planning call k+1 starts with that of call k, the text of every successful
\* schema-discovery step made before a planning call is in that call's
\* additional schema text, and this text comes after the original schema in
\* the schema section of the prompt.
C4_DiscoveredSchemaAccumulates ==
    /\ \A k \in DOMAIN planLog :
          k + 1 \in DOMAIN planLog
          => IsPrefix(planLog[k].additional_schema, planLog[k + 1].additional_schema)
    /\ \A k \in DOMAIN planLog : \A j \in SuccessfulDiscoveries(k) :
          Contains(planLog[k].additional_schema,
                   ExtractSchemaFromResult(all_tool_results[j].content))
    /\ \A k \in DOMAIN planLog :
          /\ IsPrefix(schema_description, planLog[k].schema_section)
          /\ IsSuffix(planLog[k].additional_schema, planLog[k].schema_section)

\* the second planning call saw the text of a discovery of the first iteration
\* and the third saw more
C4_Witness ==
    /\ Len(planLog) = 3
    /\ Contains(planLog[2].additional_schema, <<Tok("body", "TABLE x", 1)>>)
    /\ Contains(planLog[3].additional_schema, <<Tok("body", "TABLE y", 1)>>)
    /\ planLog[3].additional_schema # planLog[2].additional_schema

\* the calls are logged in execution order: by iteration, then by step
InExecutionOrder(log) ==
    \A i, j \in DOMAIN log :
        i < j => \/ log[i].iteration < log[j].iteration
                 \/ log[i].iteration = log[j].iteration /\ log[i].step < log[j].step

\* C5: when intelligent_query synthesizes, the list it returns has one entry
\* per tool call made, in execution order, each with the purpose of its step;
\* and at most one tool call is in flight at any time.
C5_ResultsInExecutionOrder ==
    /\ Cardinality(inflight) <= 1
    /\ (IntelligentQueryDone /\ synthCalls = 1)
       => /\ Len(returned) = Len(callLog)
          /\ InExecutionOrder(callLog)
          /\ \A j \in DOMAIN callLog :
                /\ returned[j].tool = callLog[j].tool
                /\ returned[j].purpose = callLog[j].purpose

\* a synthesis over the calls of two iterations
C5_Witness ==
    /\ IntelligentQueryDone
    /\ synthCalls = 1
    /\ Len(returned) >= 2
    /\ callLog[1].iteration # callLog[Len(callLog)].iteration

\* the invocation ended on a plan without steps
EndedOnEmptyPlan == IntelligentQueryDone /\ planLog # << >> /\ plan.steps = << >>

\* what C6 says of a plan without steps: on the first iteration the reasoning
\* is returned without synthesis, later the accumulated results are synthesized
EmptyPlanHandled ==
    IF Len(planLog) = 1
    THEN outcome = "returned" /\ answer = plan.reasoning /\ returned = << >> /\ synthCalls = 0
    ELSE outcome = "returned" /\ synthCalls = 1 /\ returned = all_tool_results
         /\ returned # << >>

\* C6 as stated: a plan with empty steps on the first iteration ends the
\* invocation with the plan's reasoning, an empty list and no synthesis; on a
\* later iteration it leads to synthesis over the accumulated results.
C6_EmptySteps_AsStated == EndedOnEmptyPlan => EmptyPlanHandled

\* C6 (amended): the same, for a plan with empty steps that does not declare
\* data_available false.
C6_EmptySteps == (EndedOnEmptyPlan /\ ~DataUnavailable(plan)) => EmptyPlanHandled

\* an empty plan on the second iteration, after the calls of the first
C6_Witness ==
    /\ EndedOnEmptyPlan
    /\ ~DataUnavailable(plan)
    /\ Len(planLog) = 2
    /\ synthCalls = 1

RECURSIVE PlannedSteps(_)
PlannedSteps(log) ==
    IF log = << >> THEN 0 ELSE Len(Head(log).plan.steps) + PlannedSteps(Tail(log))

\* every step planned in the invocation had its tool call, and each failed
EveryPlannedCallFailed ==
    /\ IntelligentQueryDone
    /\ callLog # << >>
    /\ PlannedSteps(planLog) = Len(callLog)
    /\ \A j \in DOMAIN all_tool_results : all_tool_results[j].isError

\* the invocation synthesized and returned the failed results
SynthesizedFailures ==
    /\ outcome = "returned"
    /\ synthCalls = 1
    /\ answer # Sentinel
    /\ returned # << >>
    /\ returned = all_tool_results

FreshText(text, ver) == \A i \in DOMAIN text : text[i].k = "body" => text[i].n = ver
FreshDict(d, ver) == \A i \in DOMAIN d : FreshText(d[i].val, ver)

\* C8: initialize() is idempotent: a call without force_refresh on an
\* initialized client sends no list_tools, list_resources, read_resource or
\* call_tool request and leaves the catalog, the schema text and the tools
\* description as they were.
C8_InitializeIdempotent ==
    [][(initialized /\ Initialize(FALSE))
       => (lastReqs' = NoReqs
           /\ UNCHANGED <<tools, resources, schema_description, tools_description>>)]_vars

\* a second initialize() was made after the server changed, and sent nothing
C8_Witness ==
    /\ initialized
    /\ lastOp = Op("initialize", FALSE, FALSE)
    /\ lastReqs = NoReqs
    /\ server.ver = 2
    /\ schema_description # << >>

\* C9: after initialize(force_refresh=True) completes, the schema text and the
\* data-content cache hold nothing of the previous discovery cycle: the schema
\* text is what the server exposes now, and the cache is empty with its flag
\* down, also when the new cycle finds no schema resource.
C9_ForcedInitializeClears ==
    [][(Initialize(TRUE) /\ ~lastOp'.raised)
       => (/\ FreshText(schema_description', server.ver)
           /\ data_content' = << >>
           /\ ~data_content_discovered')]_vars

\* C10: after refresh_schema() completes, the schema text, the SQL guidance,
\* the additional context and the data-content cache reflect only what the
\* server exposes at that time; SQL guidance of a resource that is gone is
\* not kept.
C10_RefreshRebuildsAll ==
    [][(RefreshSchema /\ ~lastOp'.raised)
       => (/\ FreshText(schema_description', server.ver)
           /\ FreshText(sql_guidance', server.ver)
           /\ FreshDict(additional_context', server.ver)
           /\ data_content' = << >>
           /\ ~data_content_discovered')]_vars

\* ---- initialize() and failures of schema discovery
\* the server gives nothing to discover: no resource is listed and no tool
\* call of the fallback returns usable text
NothingDiscoverable ==
    /\ server.resourceList = << >>
    /\ \A i \in DOMAIN server.toolList : ~SchemaReplyUsable(server, server.toolList[i].name)

\* C11: initialize() raises only when tool listing itself fails; every failure
\* during schema discovery is absorbed: the call completes with the client
\* marked initialized, and when nothing at all was discovered the schema text
\* is the "discover dynamically" placeholder.
C11_InitializeAbsorbsDiscoveryFailures ==
    (lastOp.op = "initialize" /\ lastReqs.list_tools = 1)
    => /\ lastOp.raised => ~server.listToolsOk
       /\ ~lastOp.raised
          => /\ initialized
             /\ NothingDiscoverable => schema_description = DynamicDiscoveryPlaceholder

\* ---- direct calls of one method (checked under UnitSpec)
\* The arguments of a direct call are drawn when the call is made; the method
\* then runs to its return.
Pending == [done |-> FALSE, value |-> << >>]
Returned(value) == [done |-> TRUE, value |-> value]

\* what session.call_tool may do for a direct call of call_tool
CallToolRaws ==
    { RawRaise, RawRaiseSilent, RawOkText(<<W("TABLE x")>>), RawOkText(<<W("TABLE y")>>),
      RawOkNoText, RawErrText, RawResult(TRUE, <<ImageItem>>), RawResult(TRUE, << >>),
      RawResult(TRUE, <<TextItem(<< >>)>>),
      RawResult(TRUE, <<ImageItem, TextItem(<<W("error: query failed")>>)>>) }
CallToolArgs ==
    [tool_name : {"kdbx_run_sql_query", "kdbx_list_tables", "kdbx_ping"},
     arguments : {"{}", "tables[]", "SHOW TABLES"},
     raw : CallToolRaws]

UnitCallOn(name, inputs, servers) ==
    /\ server \in servers
    /\ changes = 0
    /\ lastOp = Op("construct", FALSE, FALSE)
    /\ lastReqs = NoReqs
    /\ plan = NoPlan
    /\ QueryIdle
    /\ tasks = << >>
    /\ redis = << >>
    /\ callee = name
    /\ args \in inputs
    /\ ret = Pending

UnitCall(name, inputs) == UnitCallOn(name, inputs, QueryServers)

UnitReturn(name, value) ==
    /\ callee = name
    /\ ~ret.done
    /\ ret' = Returned(value)
    /\ UNCHANGED <<clientVars, envVars, queryVars, callee, args, tasks, redis>>

\* await client.call_tool(tool_name, arguments)
CallToolReturns == UnitReturn("call_tool", CallTool(args.tool_name, args.arguments, args.raw))

\* a direct call of discover_data_content on an initialized client: the
\* schema text it holds, and what the server answers to the probes
TableSection(name) == Tok("table", name, 1)
ProbeOutcomes == {"error", "value"}
TableReplies ==
    { ProbeReply(<< >>, rc, sy, dr, st) :
        rc \in {"error", "int"}, sy \in ProbeOutcomes, dr \in ProbeOutcomes,
        st \in ProbeOutcomes }
DiscoverArgs ==
    [schema : { <<TableSection("trades"), TableSection("news")>>,
                <<TableSection("news"), TableSection("trades")>> },
     run : [tablesListed : {FALSE}, replies : TableReplies \X TableReplies],
     force_refresh : {FALSE}]
InitializedWith(schema) ==
    [NewClient EXCEPT !.initialized = TRUE, !.schema_description = schema]

\* await client.discover_data_content(force_refresh=...)
DiscoverDataContentReturns ==
    /\ callee = "discover_data_content"
    /\ ~ret.done
    /\ SetClient(DiscoverDataContentOn(Client, server, args.force_refresh, args.run).client)
    /\ ret' = Returned(
           [data_content |->
                DiscoverDataContentOn(Client, server, args.force_refresh, args.run)
                    .client.data_content,
            calls |->
                DiscoverDataContentOn(Client, server, args.force_refresh, args.run)
                    .reqs.call_tool,
            raised |->
                DiscoverDataContentOn(Client, server, args.force_refresh, args.run).raised])
    /\ UNCHANGED <<envVars, queryVars, callee, args, tasks, redis>>

\* client._extract_json(text)
ExtractJsonArgs == [text : Texts(MaxSegments)]
ExtractJsonReturns == UnitReturn("_extract_json", ExtractJson(args.text))

\* a direct call of _discover_schema on a new client, against a server that
\* lists up to MaxResources of the resources below: four whose names hold a
\* schema keyword (one of them a guidance keyword too), two that hold a
\* guidance keyword only, and three that hold neither, two of them under
\* one name
MaxResources == 3
SchemaLow == Res("kdbx://s2", "schema_low", {"schema"}, {}, {2}, TRUE)
SchemaHigh == Res("kdbx://s9", "schema_high", {"schema"}, {"llm"}, {9}, TRUE)
SchemaPlain == Res("kdbx://s", "schema_plain", {"schema"}, {}, {}, TRUE)
SchemaSql == Res("kdbx://sq", "schema_sql_examples", {"schema", "sql", "example"}, {}, {5}, TRUE)
SyntaxHigh == Res("kdbx://g9", "syntax", {"syntax"}, {}, {9}, TRUE)
SyntaxPlain == Res("kdbx://g", "how_to", {"how to"}, {}, {}, TRUE)
NotesHigh == Res("kdbx://n9", "notes", {}, {}, {9}, TRUE)
NotesPlain == Res("kdbx://n", "notes", {}, {}, {}, TRUE)
Changelog == Res("kdbx://c", "changelog", {}, {}, {}, TRUE)
ResourcePool ==
    {SchemaLow, SchemaHigh, SchemaPlain, SchemaSql, SyntaxHigh, SyntaxPlain, NotesHigh,
     NotesPlain, Changelog}
ListsOf(pool, n) ==
    {rs \in UNION {[1..k -> pool] : k \in 1..n} :
        \A i, j \in DOMAIN rs : i # j => rs[i] # rs[j]}
DiscoverSchemaServers ==
    {[srv EXCEPT !.resourceList = rs] :
        srv \in {q \in QueryServers : q.listToolsOk}, rs \in ListsOf(ResourcePool, MaxResources)}

\* await client._discover_schema()
DiscoverSchemaReturns ==
    /\ callee = "_discover_schema"
    /\ ~ret.done
    /\ SetClient(DiscoverSchema(Client, server).client)
    /\ ret' = Returned([raised |-> DiscoverSchema(Client, server).raised,
                        read_resource |-> DiscoverSchema(Client, server).reqs.read_resource])
    /\ UNCHANGED <<envVars, queryVars, callee, args, tasks, redis>>

\* a direct call of _discover_schema_via_tools on a client that holds the
\* catalog of a server without resources: up to three tools, two of which
\* match a schema keyword, and any of which may fail
DescribeTool == [name |-> "kdbx_describe", schemaKw |-> TRUE, sqlKw |-> FALSE, described |-> TRUE]
ViaToolsServers ==
    {[srv EXCEPT !.toolList = ts, !.failing = failing, !.resourceList = << >>] :
        srv \in {q \in QueryServers : q.listToolsOk},
        ts \in ListsOf({ListTool, DescribeTool, SqlTool}, 3),
        failing \in SUBSET {"kdbx_list_tables", "kdbx_describe", "kdbx_run_sql_query"}}

\* await client._discover_schema_via_tools()
DiscoverSchemaViaToolsReturns ==
    /\ callee = "_discover_schema_via_tools"
    /\ ~ret.done
    /\ SetClient(DiscoverSchemaViaTools(Client, server).client)
    /\ ret' = Returned([raised |-> DiscoverSchemaViaTools(Client, server).raised,
                        calls |-> DiscoverSchemaViaTools(Client, server).calls])
    /\ UNCHANGED <<envVars, queryVars, callee, args, tasks, redis>>

\* ---- search_kdb_nat and its citation helpers
\* result.get("content") is non-empty and result.get("error") is falsy
HasRows(result) == result.content # << >> /\ ~GetError(result)

\* _count_records_from_results
RECURSIVE CountRecordsFromResults(_)
CountRecordsFromResults(tool_results) ==
    IF tool_results = << >> THEN 0
    ELSE (IF HasRows(Head(tool_results)) THEN Len(Head(tool_results).content) ELSE 0)
         + CountRecordsFromResults(Tail(tool_results))

\* the lines one result adds to the citation
CitationOf(result) ==
    <<Tok("- ", result.tool, 0)>>
    \o (IF result.purpose # << >> THEN <<W("  Purpose: ")>> \o result.purpose ELSE << >>)
    \o (IF result.arguments # "{}" THEN <<Tok("  Arguments: ", result.arguments, 0)>> ELSE << >>)
    \o (IF HasRows(result)
        THEN <<W("  Result preview:")>>
             \o Flatten([i \in 1..(IF Len(result.content) < 2 THEN Len(result.content) ELSE 2) |->
                            IF result.content[i].type = "text"
                            THEN result.content[i].text \o <<W("...")>> ELSE << >>])
        ELSE << >>)

\* _format_intelligent_citations
FormatIntelligentCitations(tool_results) ==
    IF tool_results = << >> THEN << >>
    ELSE <<W("---"), W("**Source**: KDB+ Database (Intelligent MCP Client)"),
           W("**Query**: "), W("**Tools Used**:")>>
         \o Flatten([i \in DOMAIN tool_results |-> CitationOf(tool_results[i])])
         \o <<W("---")>>

\* answer.startswith("Unable to answer")
StartsWithSentinel(text) == text # << >> /\ Head(text) = W("Unable to answer")

\* what search_kdb_nat returns, and the calls it made on the way
SearchResult(raised, text, citations, record_count, events) ==
    [raised |-> raised, answer |-> text, citations |-> citations,
     record_count |-> record_count, events |-> events]

\* the slip of testing the answer for emptiness only
SearchKdbNatKeepsSentinel(enabled, mcp_available, engine) ==
    IF ~enabled THEN SearchResult(FALSE, << >>, << >>, 0, << >>)
    ELSE IF ~mcp_available
    THEN SearchResult(FALSE, << >>, << >>, 0, <<"get_kdb_nat_client", "writer">>)
    ELSE IF engine.raised \/ engine.answer = << >>
    THEN SearchResult(FALSE, << >>, << >>, 0,
                      <<"get_kdb_nat_client", "writer", "intelligent_query">>)
    ELSE SearchResult(FALSE, engine.answer, FormatIntelligentCitations(engine.tool_results),
                      CountRecordsFromResults(engine.tool_results),
                      <<"get_kdb_nat_client", "writer", "intelligent_query">>)

\* search_kdb_nat: enabled is KDB_ENABLED, mcp_available whether
\* get_kdb_nat_client returns a client (None otherwise, and the call on it
\* raises inside the try), engine what intelligent_query does
SearchKdbNat(enabled, mcp_available, engine) ==
    IF ~enabled THEN SearchResult(FALSE, << >>, << >>, 0, << >>)
    ELSE IF ~mcp_available
    THEN SearchResult(FALSE, << >>, << >>, 0, <<"get_kdb_nat_client", "writer">>)
    ELSE IF engine.raised \/ engine.answer = << >> \/ StartsWithSentinel(engine.answer)
    THEN SearchResult(FALSE, << >>, << >>, 0,
                      <<"get_kdb_nat_client", "writer", "intelligent_query">>)
    ELSE SearchResult(FALSE, engine.answer, FormatIntelligentCitations(engine.tool_results),
                      CountRecordsFromResults(engine.tool_results),
                      <<"get_kdb_nat_client", "writer", "intelligent_query">>)

\* what intelligent_query may do: raise, or return an answer and the results
EngineAnswers ==
    { << >>, <<W("Unable to answer"), W(" with available tools.")>>,
      <<W("Unable to answer"), W(" the question: no such table")>>,
      <<W("synthesized answer")>>, <<W("I am "), W("Unable to answer")>> }
EngineResults ==
    { << >>,
      <<Annotate(CallTool("kdbx_run_sql_query", "SHOW TABLES", RawOkText(<<W("TABLE x")>>)),
                 <<W("list tables")>>)>>,
      <<CallTool("kdbx_list_tables", "{}", RawErrText),
        CallTool("kdbx_run_sql_query", "SHOW TABLES", RawOkText(<<W("TABLE y")>>))>> }
SearchArgs ==
    [enabled : BOOLEAN, mcp_available : BOOLEAN,
     engine : [raised : {FALSE}, answer : EngineAnswers, tool_results : EngineResults]
              \cup {[raised |-> TRUE, answer |-> << >>, tool_results |-> << >>]}]

\* await search_kdb_nat(query, writer, llm=llm)
SearchKdbNatReturns ==
    UnitReturn("search_kdb_nat", SearchKdbNat(args.enabled, args.mcp_available, args.engine))

\* ---- process_single_query in hybrid mode (search_utils.py)
\* class SourceResult: is_relevant defaults to True
SourceResult(source, content, citation) ==
    [source |-> source, content |-> content, citation |-> citation, is_relevant |-> TRUE]

\* SourceResult.is_empty: no content, or a short text that holds a pattern of
\* an empty answer
IsEmpty(result) ==
    \/ result.content = << >>
    \/ \E i \in DOMAIN result.content : result.content[i].v \in {"no data", "not found"}

\* merge_hybrid_results
MergeHybridResults(kdb_result, rag_result) ==
    IF ~IsEmpty(kdb_result) /\ kdb_result.is_relevant
       /\ ~IsEmpty(rag_result) /\ rag_result.is_relevant
    THEN [content |-> <<W("**Financial Data (KDB+):**")>> \o kdb_result.content
                      \o <<W("**Document Analysis (RAG):**")>> \o rag_result.content,
          citation |-> (IF kdb_result.citation # << >>
                        THEN <<W("[KDB+ Source]")>> \o kdb_result.citation ELSE << >>)
                       \o (IF rag_result.citation # << >>
                           THEN <<W("[Document Source]")>> \o rag_result.citation ELSE << >>)]
    ELSE IF ~IsEmpty(kdb_result) /\ kdb_result.is_relevant
    THEN [content |-> kdb_result.content, citation |-> kdb_result.citation]
    ELSE IF ~IsEmpty(rag_result) /\ rag_result.is_relevant
    THEN [content |-> rag_result.content, citation |-> rag_result.citation]
    ELSE IF kdb_result.content # << >>
    THEN [content |-> kdb_result.content, citation |-> kdb_result.citation]
    ELSE IF rag_result.content # << >>
    THEN [content |-> rag_result.content, citation |-> rag_result.citation]
    ELSE [content |-> <<W("No relevant information found from available sources.")>>,
          citation |-> << >>]

\* the relevancy check of a source: made only when the source has content
Checked(result, score) ==
    IF result.content # << >> THEN [result EXCEPT !.is_relevant = (score = "yes")]
    ELSE result

\* process_single_query, hybrid branch: what the two searches returned, the
\* scores check_relevancy gives, and whether web search is enabled
ProcessSingleQuery(kdb_result, rag_result, kdb_score, rag_score, search_web) ==
    [content |-> MergeHybridResults(Checked(kdb_result, kdb_score),
                                    Checked(rag_result, rag_score)).content,
     citation |-> MergeHybridResults(Checked(kdb_result, kdb_score),
                                     Checked(rag_result, rag_score)).citation,
     relevancy |-> IF Checked(kdb_result, kdb_score).is_relevant
                      \/ Checked(rag_result, rag_score).is_relevant
                   THEN "yes" ELSE "no",
     web_search |-> search_web /\ ~(Checked(kdb_result, kdb_score).is_relevant
                                    \/ Checked(rag_result, rag_score).is_relevant)]

SourceContents == { << >>, <<W("AAPL closed at 190")>>, <<W("no data"), W("for AAPL")>> }
Scores == {"yes", "no", "unsure"}
HybridArgs ==
    [kdb : {SourceResult("kdb", c, IF c = << >> THEN << >> ELSE <<W("kdb citation")>>) :
               c \in SourceContents},
     rag : {SourceResult("rag", c, IF c = << >> THEN << >> ELSE <<W("rag citation")>>) :
               c \in SourceContents},
     kdb_score : Scores, rag_score : Scores, search_web : BOOLEAN]

\* await process_single_query(..., hybrid_mode=True), both sources enabled
ProcessSingleQueryReturns ==
    UnitReturn("process_single_query",
               ProcessSingleQuery(args.kdb, args.rag, args.kdb_score, args.rag_score,
                                  args.search_web))

\* ---- KdbaiVDB.write_to_index (nvidia_rag/utils/vdb/kdbai/kdbai_vdb.py)
\* the batch size of the environment, scaled down from 200, and the largest
\* number of records written
KDBAI_INSERT_BATCH_SIZE == 2
MaxRecords == 5

\* for i in range(0, total_records, batch_size): the batches inserted from
\* index i on (0-based), each data_rows[i:min(i + batch_size, total_records)]
RECURSIVE Batches(_, _, _)
Batches(data_rows, i, batch_size) ==
    IF i >= Len(data_rows) THEN << >>
    ELSE <<SubSeq(data_rows, i + 1, Min(i + batch_size, Len(data_rows)))>>
         \o Batches(data_rows, i + batch_size, batch_size)

\* the batch size: every record at once under the CAGRA workaround
BatchSize(data_rows, single_batch) ==
    IF single_batch THEN Len(data_rows) ELSE KDBAI_INSERT_BATCH_SIZE

\* write_to_index: the table.insert calls it makes; range() raises
\* ValueError when its step is zero
WriteToIndex(data_rows, single_batch) ==
    IF BatchSize(data_rows, single_batch) = 0
    THEN [raised |-> TRUE, inserts |-> << >>]
    ELSE [raised |-> FALSE,
          inserts |-> Batches(data_rows, 0, BatchSize(data_rows, single_batch))]

\* single_batch is self.enable_gpu_index and KDBAI_CAGRA_SINGLE_BATCH
WriteArgs ==
    [records : {[k \in 1..n |-> k] : n \in 0..MaxRecords}, single_batch : BOOLEAN]

\* vdb.write_to_index(records), every insert succeeding
WriteToIndexReturns ==
    UnitReturn("write_to_index", WriteToIndex(args.records, args.single_batch))

\* the clean-up of simple_chat_query applied to one response of the model:
\* the responses of the fast path, and bare statements that end with a quoted
\* literal or a quoted column name (a quote character is a word of its own)
CleanupResponses ==
    SqlResponses \cup
    { <<"SELECT", "*", "FROM", "trades", "WHERE", "sym", "=", "'", "AAPL", "'">>,
      <<"SELECT", "\"", "close", "\"">>,
      <<"SELECT", "*", "FROM", "trades">> }
CleanupArgs == [response : CleanupResponses]

\* response.content cleaned and validated, as sent to kdbx_run_sql_query
CleanSqlReturns == UnitReturn("simple_chat_query.cleanup", CleanSql(args.response))

UnitInit ==
    \/ UnitCall("call_tool", CallToolArgs) /\ SetClientNow(NewClient)
    \/ UnitCall("simple_chat_query.cleanup", CleanupArgs) /\ SetClientNow(NewClient)
    \/ UnitCallOn("write_to_index", WriteArgs, {CHOOSE srv \in QueryServers : srv.listToolsOk})
       /\ SetClientNow(NewClient)
    \/ UnitCallOn("process_single_query", HybridArgs,
                  {CHOOSE srv \in QueryServers : srv.listToolsOk})
       /\ SetClientNow(NewClient)
    \/ UnitCallOn("search_kdb_nat", SearchArgs, {CHOOSE srv \in QueryServers : srv.listToolsOk})
       /\ SetClientNow(NewClient)
    \/ UnitCallOn("_discover_schema_via_tools", {<< >>}, ViaToolsServers)
       /\ SetClientNow([NewClient EXCEPT !.tools = server.toolList])
    \/ UnitCallOn("_discover_schema", {<< >>}, DiscoverSchemaServers) /\ SetClientNow(NewClient)
    \/ UnitCall("_extract_json", ExtractJsonArgs) /\ SetClientNow(NewClient)
    \/ UnitCall("discover_data_content", DiscoverArgs)
       /\ SetClientNow(InitializedWith(args.schema))

UnitNext ==
    \/ CallToolReturns
    \/ CleanSqlReturns
    \/ WriteToIndexReturns
    \/ ProcessSingleQueryReturns
    \/ SearchKdbNatReturns
    \/ DiscoverSchemaViaToolsReturns
    \/ DiscoverSchemaReturns
    \/ ExtractJsonReturns
    \/ DiscoverDataContentReturns

UnitSpec == UnitInit /\ [][UnitNext]_vars

\* the call failed: the session raised, or the tool reported an error
CallFailed == args.raw.raises \/ args.raw.isError
HasTextItem(content) == \E i \in DOMAIN content : content[i].type = "text"

MaxTasks == 2
TaskIds == 1..MaxTasks

\* pc: "start", the await the coroutine is suspended at ("list_tools",
\* "list_resources", "read", "schema_tool", "sql_tool"), "done" or "raised";
\* llm, idx, parts: llm_resources, the resource being read and the parts
\* read so far; ts: the tools left to iterate, the one awaited first; qi: the
\* index of the fallback query awaited; retry: whether _discover_schema is in
\* its except branch.
NewTask ==
    [pc |-> "start", llm |-> << >>, idx |-> 0, parts |-> << >>, ts |-> << >>, qi |-> 0,
     retry |-> FALSE]

CoDone(c, task) ==
    [client |-> [c EXCEPT !.initialized = TRUE], task |-> [task EXCEPT !.pc = "done"]]
CoRaised(c, task) == [client |-> c, task |-> [task EXCEPT !.pc = "raised"]]
CoAwait(c, task, at) == [client |-> c, task |-> [task EXCEPT !.pc = at]]

\* the first loop of _discover_schema_via_tools up to its next await: the
\* tools left, starting at the one to call; or the tool whose missing
\* description raises; or the end of the loop
RECURSIVE NextSchemaTool(_)
NextSchemaTool(ts) ==
    IF ts = << >> THEN [kind |-> "end", rest |-> << >>]
    ELSE IF ~Head(ts).described THEN [kind |-> "raise", rest |-> ts]
    ELSE IF Head(ts).schemaKw THEN [kind |-> "call", rest |-> ts]
    ELSE NextSchemaTool(Tail(ts))

\* the second loop of _discover_schema_via_tools up to its first await, or
\* the placeholder when no tool name holds "sql" or "query"
CoSqlTools(c, task) ==
    IF SelectSeq(c.tools, LAMBDA x : x.sqlKw) = << >>
    THEN CoDone([c EXCEPT !.schema_description = DynamicDiscoveryPlaceholder], task)
    ELSE CoAwait(c, [task EXCEPT !.ts = SelectSeq(c.tools, LAMBDA x : x.sqlKw), !.qi = 1],
                 "sql_tool")

\* _discover_schema_via_tools entered anew, from the catalog held now
CoViaTools(c, task) ==
    IF NextSchemaTool(c.tools).kind = "call"
    THEN CoAwait(c, [task EXCEPT !.ts = NextSchemaTool(c.tools).rest], "schema_tool")
    ELSE IF NextSchemaTool(c.tools).kind = "raise"
    THEN IF task.retry THEN CoRaised(c, task)
         ELSE \* caught by _discover_schema, which enters the fallback again
              CoRaised(c, [task EXCEPT !.retry = TRUE])
    ELSE CoSqlTools(c, task)

\* the first loop continued over the tools left
CoNextSchemaTool(c, task, ts) ==
    IF NextSchemaTool(ts).kind = "call"
    THEN CoAwait(c, [task EXCEPT !.ts = NextSchemaTool(ts).rest], "schema_tool")
    ELSE IF NextSchemaTool(ts).kind = "raise"
    THEN IF task.retry THEN CoRaised(c, task)
         ELSE CoViaTools(c, [task EXCEPT !.retry = TRUE])
    ELSE CoSqlTools(c, task)

\* the end of the resource branch of _discover_schema, then of initialize
CoCombine(c, task) ==
    CoDone(DiscoverFromResources(c, c.resources, Len(task.llm), task.parts).client, task)

CoTask(t, r) ==
    /\ SetClient(r.client)
    /\ tasks' = [tasks EXCEPT ![t] = r.task]
    /\ UNCHANGED <<envVars, queryVars, callee, args, ret, redis>>

\* initialize() is entered: the early return, or the await of list_tools
CoStart(t) ==
    /\ tasks[t].pc = "start"
    /\ CoTask(t, IF InitializeSkips(Client, FALSE)
                 THEN CoAwait(Client, tasks[t], "done")
                 ELSE CoAwait(Client, tasks[t], "list_tools"))

\* list_tools answers: the catalog and its description are stored and
\* _discover_schema awaits list_resources
CoListTools(t) ==
    /\ tasks[t].pc = "list_tools"
    /\ CoTask(t, IF ~server.listToolsOk
                 THEN CoRaised(Client, tasks[t])
                 ELSE CoAwait([Client EXCEPT
                                  !.tools = server.toolList,
                                  !.tools_description = BuildToolsDescription(server.toolList)],
                              tasks[t], "list_resources"))

\* list_resources answers
CoListResources(t) ==
    /\ tasks[t].pc = "list_resources"
    /\ CoTask(t, IF server.resourceList = << >>
                 THEN CoViaTools(Client, tasks[t])
                 ELSE IF LlmResources(server.resourceList) = << >>
                 THEN CoCombine([Client EXCEPT !.resources = server.resourceList], tasks[t])
                 ELSE CoAwait([Client EXCEPT !.resources = server.resourceList],
                              [tasks[t] EXCEPT !.llm = LlmResources(server.resourceList),
                                               !.idx = 1],
                              "read"))

\* _read_resource answers for llm_resources[idx]
CoReadResource(t) ==
    /\ tasks[t].pc = "read"
    /\ CoTask(t, IF tasks[t].idx = Len(tasks[t].llm)
                 THEN CoCombine(Client,
                                [tasks[t] EXCEPT !.parts =
                                    @ \o ReadParts(server, <<tasks[t].llm[tasks[t].idx]>>)])
                 ELSE CoAwait(Client,
                              [tasks[t] EXCEPT !.parts =
                                    @ \o ReadParts(server, <<tasks[t].llm[tasks[t].idx]>>),
                                               !.idx = @ + 1],
                              "read"))

\* call_tool answers for a schema-keyword tool
CoSchemaTool(t) ==
    /\ tasks[t].pc = "schema_tool"
    /\ CoTask(t, IF SchemaReplyUsable(server, Head(tasks[t].ts).name)
                 THEN CoDone([Client EXCEPT !.schema_description =
                                  SchemaReplyText(server, Head(tasks[t].ts).name)],
                             tasks[t])
                 ELSE CoNextSchemaTool(Client, tasks[t], Tail(tasks[t].ts)))

\* call_tool answers for a fallback query of a SQL-capable tool
CoSqlTool(t) ==
    /\ tasks[t].pc = "sql_tool"
    /\ CoTask(t, IF SchemaReplyUsable(server, Head(tasks[t].ts).name)
                 THEN CoDone([Client EXCEPT !.schema_description =
                                  <<W("Available tables:")>>
                                  \o SchemaReplyText(server, Head(tasks[t].ts).name)],
                             tasks[t])
                 ELSE IF tasks[t].qi < Len(FallbackQueries)
                 THEN CoAwait(Client, [tasks[t] EXCEPT !.qi = @ + 1], "sql_tool")
                 ELSE IF Tail(tasks[t].ts) # << >>
                 THEN CoAwait(Client, [tasks[t] EXCEPT !.ts = Tail(@), !.qi = 1], "sql_tool")
                 ELSE CoDone([Client EXCEPT !.schema_description = DynamicDiscoveryPlaceholder],
                             tasks[t]))

CoInit ==
    /\ SetClientNow(NewClient)
    /\ server \in ServersAt(1)
    /\ changes = 0
    /\ lastOp = Op("construct", FALSE, FALSE)
    /\ lastReqs = NoReqs
    /\ plan = NoPlan
    /\ QueryIdle
    /\ callee = "none"
    /\ args = << >>
    /\ ret = Pending
    /\ tasks = [t \in TaskIds |-> NewTask]
    /\ redis = << >>

CoNext ==
    \E t \in TaskIds :
        \/ CoStart(t)
        \/ CoListTools(t)
        \/ CoListResources(t)
        \/ CoReadResource(t)
        \/ CoSchemaTool(t)
        \/ CoSqlTool(t)

CoSpec == CoInit /\ [][CoNext]_vars

\* ---------------------------------------------------------------------------
\* refresh_schema() and discover_data_content() as coroutines of one
\* initialized client: task 1 runs refresh_schema(), every other task runs
\* discover_data_content(); each action runs one coroutine from one await to
\* the next.  stale records that the run was suspended inside its discovery
\* when refresh_schema() cleared the caches.
RefreshTask ==
    [pc |-> "start", llm |-> << >>, idx |-> 1, parts |-> << >>, ts |-> << >>,
     qi |-> 1, retry |-> FALSE, tables |-> << >>, stale |-> FALSE]
Refresher == CHOOSE t \in TaskIds : \A u \in TaskIds : t <= u
InDiscovery(task) == task.pc \in {"tables_sql", "probe"}

\* refresh_schema() up to the await inside _discover_schema: the schema text
\* and the caches are cleared, _initialized is left as it is
RefreshStart(t) ==
    /\ t = Refresher
    /\ tasks[t].pc = "start"
    /\ SetClient(RefreshClears(Client))
    /\ tasks' = [u \in TaskIds |->
                    IF u = t THEN [tasks[u] EXCEPT !.pc = "list_resources"]
                    ELSE [tasks[u] EXCEPT !.stale = InDiscovery(tasks[u])]]
    /\ UNCHANGED <<envVars, queryVars, callee, args, ret, redis>>

\* the replies one table's probes can get
StepReplies == { ReplyOf(p) : p \in { pr \in Probes : pr.tablesListed /\ pr.row_count # "str" } }

\* discover_data_content() up to its first await: the cached early return,
\* else the table list is taken once from the schema text held now
DataContentStart(t) ==
    /\ t # Refresher
    /\ tasks[t].pc = "start"
    /\ CoTask(t, IF DataContentCached(Client, FALSE)
                 THEN CoAwait(Client, tasks[t], "done")
                 ELSE IF ExtractTablesAndColumnsFromSchema(Client.schema_description) = << >>
                 THEN CoAwait(Client, tasks[t], "tables_sql")
                 ELSE CoAwait(Client,
                              [tasks[t] EXCEPT !.tables =
                                   ExtractTablesAndColumnsFromSchema(Client.schema_description),
                                               !.idx = 1],
                              "probe"))

\* _discover_tables_via_sql answers: no table ends the run with the cache as
\* it is, else the loop over the tables begins
DataContentTables(t) ==
    /\ tasks[t].pc = "tables_sql"
    /\ \E listed \in BOOLEAN :
          CoTask(t, IF TableList(<< >>, [tablesListed |-> listed]) = << >>
                    THEN CoAwait(Client, tasks[t], "done")
                    ELSE CoAwait(Client,
                                 [tasks[t] EXCEPT !.tables =
                                      TableList(<< >>, [tablesListed |-> listed]),
                                                  !.idx = 1],
                                 "probe"))

\* the probes of tables[idx] answer: the table is stored in the cache the
\* client holds now; after the last table the discovered flag is set
DataContentProbe(t) ==
    /\ tasks[t].pc = "probe"
    /\ \E reply \in StepReplies :
          CoTask(t, IF tasks[t].idx = Len(tasks[t].tables)
                    THEN CoAwait([Client EXCEPT
                                     !.data_content =
                                         StoreTable(@, tasks[t].tables[tasks[t].idx].table,
                                                    TableInfo(tasks[t].tables[tasks[t].idx].columns,
                                                              reply)),
                                     !.data_content_discovered = TRUE],
                                 tasks[t], "done")
                    ELSE CoAwait([Client EXCEPT
                                     !.data_content =
                                         StoreTable(@, tasks[t].tables[tasks[t].idx].table,
                                                    TableInfo(tasks[t].tables[tasks[t].idx].columns,
                                                              reply))],
                                 [tasks[t] EXCEPT !.idx = @ + 1], "probe"))

RefreshInit ==
    /\ server \in ServersAt(1)
    /\ ~InitializeOn(NewClient, server, FALSE).raised
    /\ SetClientNow(InitializeOn(NewClient, server, FALSE).client)
    /\ changes = 0
    /\ lastOp = Op("initialize", FALSE, FALSE)
    /\ lastReqs = NoReqs
    /\ plan = NoPlan
    /\ QueryIdle
    /\ callee = "none"
    /\ args = << >>
    /\ ret = Pending
    /\ tasks = [t \in TaskIds |-> RefreshTask]
    /\ redis = << >>

RefreshNext ==
    \E t \in TaskIds :
        \/ RefreshStart(t)
        \/ CoListResources(t)
        \/ CoReadResource(t)
        \/ CoSchemaTool(t)
        \/ CoSqlTool(t)
        \/ DataContentStart(t)
        \/ DataContentTables(t)
        \/ DataContentProbe(t)

RefreshSpec == RefreshInit /\ [][RefreshNext]_vars

AllTasksEnded == \A t \in TaskIds : tasks[t].pc \in {"done", "raised"}
SingleInitialize == InitializeOn(NewClient, server, FALSE).client

\* C13: two initialize() calls running concurrently on one uninitialized
\* client against an unchanging server only repeat discovery work: once both
\* have ended, the catalog, the tools description, the schema text, the SQL
\* guidance and the additional context equal what a single initialize() would
\* have produced, for every interleaving of their suspension points.
C13_ConcurrentInitializeAgree ==
    AllTasksEnded
    => /\ tools = SingleInitialize.tools
       /\ tools_description = SingleInitialize.tools_description
       /\ schema_description = SingleInitialize.schema_description
       /\ sql_guidance = SingleInitialize.sql_guidance
       /\ additional_context = SingleInitialize.additional_context
       /\ initialized = SingleInitialize.initialized

\* both coroutines went through discovery, and read resources, before either ended
C13_Witness ==
    /\ AllTasksEnded
    /\ \A t \in TaskIds : tasks[t].pc = "done" /\ tasks[t].parts # << >>
    /\ sql_guidance # << >>
    /\ initialized

\* ---- the data-content cache (checked under Spec)
\* C14: after one discover_data_content call has run to completion, a later
\* call with force_refresh=false issues no tool call (nor any other request)
\* and returns the cached mapping, including when the first run found no
\* tables to probe.
C14_CachedAfterOneRun ==
    [][(/\ lastOp.op = "discover_data_content"
        /\ ~lastOp.raised
        /\ DiscoverDataContent(FALSE))
       => (lastReqs' = NoReqs /\ data_content' = data_content)]_vars

\* ---- the probes of discover_data_content (checked under UnitSpec)
DiscoverReturned == callee = "discover_data_content" /\ ret.done
ProbedTables == ExtractTablesAndColumnsFromSchema(args.schema)

\* the probe of a field answered with an error exactly when the field is missing
FieldTracksProbe(info, key, result) == DictHas(info, key) <=> result # "error"

RECURSIVE ExpectedCalls(_)
ExpectedCalls(table_list) ==
    IF table_list = << >> THEN 0
    ELSE (CASE Head(table_list).table = "trades" -> 4
            [] Head(table_list).table = "news" -> 3
            [] OTHER -> 0)
         + ExpectedCalls(Tail(table_list))

\* C15: probing is best-effort per field: an error result from the row-count,
\* distinct-symbols, date-range or sample-text probe of a table omits only
\* that field; the table's other fields are still probed and stored, the
\* other tables are still probed, and the call does not raise.
C15_ProbesAreIndependent ==
    DiscoverReturned
    => /\ ~ret.value.raised
       /\ data_content_discovered
       /\ ret.value.calls = ExpectedCalls(ProbedTables)
       /\ \A i \in DOMAIN ProbedTables :
            /\ DictHas(data_content, ProbedTables[i].table)
            /\ FieldTracksProbe(DictGet(data_content, ProbedTables[i].table), "row_count",
                                args.run.replies[i].row_count)
            /\ ProbedTables[i].table = "trades"
               => FieldTracksProbe(DictGet(data_content, ProbedTables[i].table), "symbols",
                                   args.run.replies[i].symbols)
            /\ FieldTracksProbe(DictGet(data_content, ProbedTables[i].table), "date_range",
                                args.run.replies[i].date_range)
            /\ FieldTracksProbe(DictGet(data_content, ProbedTables[i].table), "sample_text",
                                args.run.replies[i].sample_text)

\* the row-count probe of the first table failed, and only that
C15_Witness ==
    /\ DiscoverReturned
    /\ args.run.replies[1] = ProbeReply(<< >>, "error", "value", "value", "value")
    /\ ~DictHas(DictGet(data_content, ProbedTables[1].table), "row_count")
    /\ DictHas(DictGet(data_content, ProbedTables[1].table), "date_range")
    /\ DictHas(DictGet(data_content, ProbedTables[2].table), "row_count")

\* s contains p, for strings
ContainsStr(s, p) == \E i \in 1..(Len(s) - Len(p) + 1) : SubSeq(s, i, i + Len(p) - 1) = p
MatchesBySubstring(c, patterns) == \E p \in patterns : ContainsStr(LowerColumn(c), p)
FirstBySubstring(columns, patterns) ==
    SelectSeq(columns, LAMBDA c : MatchesBySubstring(c, patterns))

\* the column recorded for a field is the first one matching by substring
ProbedColumnIs(info, key, columns, patterns) ==
    IF FirstBySubstring(columns, patterns) = << >> THEN ~DictHas(info, key)
    ELSE DictHas(info, key) /\ DictGet(info, key) = FirstBySubstring(columns, patterns)[1]

\* C16: a column is selected as the symbol (resp. date, text) column when its
\* lower-cased name contains a configured pattern as a substring: the first
\* such column, in column order, is the one probed (a column named trade_date
\* is probed as the date column).
C16_FirstSubstringMatchProbed ==
    DiscoverReturned
    => \A i \in DOMAIN ProbedTables :
         (/\ args.run.replies[i].symbols # "error"
          /\ args.run.replies[i].date_range # "error"
          /\ args.run.replies[i].sample_text # "error")
         => /\ ProbedColumnIs(DictGet(data_content, ProbedTables[i].table), "symbol_column",
                              ProbedTables[i].columns, SymbolPatterns)
            /\ ProbedColumnIs(DictGet(data_content, ProbedTables[i].table), "date_column",
                              ProbedTables[i].columns, DatePatterns)
            /\ DictHas(DictGet(data_content, ProbedTables[i].table), "sample_text")
            /\ DictGet(DictGet(data_content, ProbedTables[i].table), "sample_text")[1].key
                   = FirstBySubstring(ProbedTables[i].columns, TextPatterns)[1]

\* ---- _extract_json (checked under UnitSpec)
ExtractReturned == callee = "_extract_json" /\ ret.done
Stripped == StripThink(args.text)
NoThinkTag(text) == \A i \in DOMAIN text : text[i] \notin {"<think>", "</think>"}

\* C17: for a response consisting of an unterminated <think> tag followed by
\* a valid JSON object, _extract_json returns a string that parses to that
\* object.
C17_UnterminatedThinkThenJson ==
    (/\ ExtractReturned
     /\ Len(args.text) > 1
     /\ Head(args.text) = "<think>"
     /\ NoThinkTag(Tail(args.text))
     /\ Parses(Tail(args.text)))
    => (ret.value.found /\ ret.value.text = Tail(args.text))

\* the spans of the text that a strategy may return, stated on the text
SomeSpanParses(text) ==
    \E i \in DOMAIN text : \E j \in i..Len(text) : Parses(SubSeq(text, i, j))
HasCodeBlock(text) ==
    \E i \in DOMAIN text : \E j \in (i + 2)..(Len(text) - 1) :
        text[i] = "fence" /\ text[i + 1] = "{" /\ text[j] = "}" /\ text[j + 1] = "fence"
\* the block from the first opening fence that has a closing one to the last
\* closing fence
CodeBlock(text) ==
    LET i == SetMin({i \in DOMAIN text : \E j \in (i + 2)..(Len(text) - 1) :
                        text[i] = "fence" /\ text[i + 1] = "{"
                        /\ text[j] = "}" /\ text[j + 1] = "fence"})
        j == SetMax({j \in (i + 2)..(Len(text) - 1) : text[j] = "}" /\ text[j + 1] = "fence"})
    IN SubSeq(text, i + 1, j)
CodeBlockParses(text) == HasCodeBlock(text) /\ Parses(CodeBlock(text))
HasBraces(text) == FirstBrace(text) # 0 /\ LastBrace(text) > FirstBrace(text)
BraceSpan(text) == SubSeq(text, FirstBrace(text), LastBrace(text))

\* C18: _extract_json tries its strategies in strict priority order (fenced
\* code block, first brace to last brace, balanced-brace scan) and returns the
\* candidate of the first strategy whose candidate parses; every string it
\* returns parses as a JSON object, and it returns nothing when no candidate
\* parses.
C18_StrategiesInPriorityOrder ==
    ExtractReturned
    => /\ ret.value.found => Parses(ret.value.text)
       /\ ~SomeSpanParses(Stripped) => ~ret.value.found
       /\ CodeBlockParses(Stripped)
          => (ret.value.found /\ ret.value.text = CodeBlock(Stripped))
       /\ (~CodeBlockParses(Stripped) /\ HasBraces(Stripped) /\ Parses(BraceSpan(Stripped)))
          => (ret.value.found /\ ret.value.text = BraceSpan(Stripped))
       /\ (~CodeBlockParses(Stripped) /\ ~(HasBraces(Stripped) /\ Parses(BraceSpan(Stripped)))
           /\ ret.value.found)
          => ret.value = BalancedScan(Stripped, 1, 0, 0)

\* a fenced object is returned although an object precedes the fence
C18_Witness ==
    /\ ExtractReturned
    /\ args.text = ObjA \o <<"fence">> \o ObjB \o <<"fence">>
    /\ ret.value = Some(ObjB)

\* the number of braces open after a prefix, a stray closing brace opening none
RECURSIVE OpenBraces(_)
OpenBraces(prefix) ==
    IF prefix = << >> THEN 0
    ELSE IF prefix[Len(prefix)] = "{" THEN OpenBraces(SubSeq(prefix, 1, Len(prefix) - 1)) + 1
    ELSE IF prefix[Len(prefix)] = "}" /\ OpenBraces(SubSeq(prefix, 1, Len(prefix) - 1)) > 0
    THEN OpenBraces(SubSeq(prefix, 1, Len(prefix) - 1)) - 1
    ELSE OpenBraces(SubSeq(prefix, 1, Len(prefix) - 1))

\* a brace-balanced top-level span of the text is valid JSON
TopLevelSpanParses(text) ==
    \E i \in DOMAIN text : \E j \in i..Len(text) :
        /\ OpenBraces(SubSeq(text, 1, i - 1)) = 0
        /\ Parses(SubSeq(text, i, j))

\* C19: whenever the think-stripped text contains a brace-balanced top-level
\* span that is valid JSON, _extract_json returns a parsing object, including
\* when the text has a stray closing brace before that span or further
\* unparsable brace spans around it.
C19_BalancedScanFindsSpan ==
    (ExtractReturned /\ TopLevelSpanParses(Stripped))
    => (ret.value.found /\ Parses(ret.value.text))

\* ---- the schema fast path of simple_chat_query (checked under QuerySpec)
\* C20: for a user question matching the schema-question keyword list,
\* simple_chat_query answers from the schema and generates and executes no
\* SQL: no statement is generated, no query tool call is made, and it returns
\* with a null query and empty rows, whatever the outcome of the
\* schema-answer model call.
C20_SchemaQuestionRunsNoSql ==
    (mode = "simple_chat_query" /\ schema_question)
    => /\ pc \notin {"generate_sql", "await_query"}
       /\ inflight = {}
       /\ (pc = "done" /\ outcome = "returned") => (sql_query = << >> /\ rows = << >>)

\* ---- the generated query of simple_chat_query (checked under QuerySpec)
\* the first word of a statement is SELECT in some letter case
BeginsWithSelect(q) == q # << >> /\ q[1] \in {"SELECT", "select"}

\* a word of the text is SELECT in some letter case
HoldsSelect(text) == \E i \in DOMAIN text : text[i] \in {"SELECT", "select"}

\* the model has answered the SQL prompt of this invocation
SqlAnswered ==
    /\ mode = "simple_chat_query"
    /\ \E i \in DOMAIN llm_calls : llm_calls[i].site = "sql" /\ ~llm_calls[i].raised

\* the content of that answer
SqlResponse == llm_calls[CHOOSE i \in DOMAIN llm_calls : llm_calls[i].site = "sql"].content

CouldNotGenerate ==
    /\ pc = "done"
    /\ outcome = "returned"
    /\ answer = <<W("Could not generate SQL for: ")>>
    /\ sql_query = << >>
    /\ rows = << >>
    /\ inflight = {}

LlmFailsAt(site) ==
    /\ Len(llm_calls') = Len(llm_calls) + 1
    /\ llm_calls'[Len(llm_calls')].site = site
    /\ llm_calls'[Len(llm_calls')].raised

\* text is not empty and ends with the given text
EndsWith(text, suffix) ==
    /\ suffix # << >>
    /\ Len(text) >= Len(suffix)
    /\ SubSeq(text, Len(text) - Len(suffix) + 1, Len(text)) = suffix

\* C22: a failure of the model call at any call site is caught and turned into
\* a degraded textual answer: a planning failure yields a plan with empty
\* steps, a synthesis failure still returns the full tool-result list with an
\* answer embedding the raw results, a failure of the fast-path SQL generation
\* returns a textual answer, and a fast-path answer-generation failure still
\* returns the executed query and its rows.
C22_LlmFailuresDegrade ==
    [][/\ (\E site \in {"plan", "synthesis", "sql", "answer", "schema"} : LlmFailsAt(site))
          => outcome' # "raised"
       /\ LlmFailsAt("plan")
          => /\ plan'.steps = << >>
             /\ planLog'[Len(planLog')].plan.steps = << >>
             /\ pc' \in {"done", "synthesize"}
             /\ pc' = "done" => (answer' # << >> /\ returned' = << >>)
       /\ LlmFailsAt("synthesis")
          => /\ outcome' = "returned"
             /\ returned' = all_tool_results
             /\ Len(returned') = Len(callLog)
             /\ EndsWith(answer', RawResults(all_tool_results))
       /\ LlmFailsAt("sql")
          => /\ outcome' = "returned"
             /\ answer' # << >>
             /\ inflight' = {}
       /\ LlmFailsAt("answer")
          => /\ outcome' = "returned"
             /\ answer' # << >>
             /\ sql_query' = sql_query
             /\ sql_query # << >>
             /\ rows' # << >>
             /\ \E c \in inflight : c.arguments = sql_query]_vars

\* the synthesis call failed after two tool calls, one of them failed
C22_Witness ==
    /\ mode = "intelligent_query"
    /\ pc = "done"
    /\ llm_calls # << >>
    /\ llm_calls[Len(llm_calls)] = LlmCall("synthesis", TRUE, << >>)
    /\ Len(returned) = 2
    /\ \E i \in DOMAIN returned : returned[i].isError

\* ---- two runs of intelligent_query on one cached state (checked under RunsSpec)
\* The client is initialized and its data content discovered; the second run
\* starts when the first has returned.  The model and the tool server answer
\* equal requests equally: args.llm, args.synthesis and args.server hold the
\* answers given so far to the planning prompts, the synthesis prompts and
\* the tool calls, and a request made before gets the answer it got then.
RunIterations == 2

Answers(given, request, universe) ==
    IF \E g \in given : g.request = request
    THEN {g.reply : g \in {x \in given : x.request = request}}
    ELSE universe

Given(given, request, reply) == given \cup {[request |-> request, reply |-> reply]}

\* what the model may answer to a planning prompt, and the server to a call
RunResponses ==
    {[kind |-> "json", plan |-> PlanOf("true", ReasoningText, << >>, st)] :
        st \in {<< >>, <<SchemaStep>>, <<DataStep>>}}
    \cup {[kind |-> "json", plan |-> PlanOf("false", ReasoningText, LimitationsText, << >>)],
          [kind |-> "raise", plan |-> NoPlan]}
RunReplies == {RawOkText(<<Tok("body", "TABLE x", 1)>>), RawErrText}

\* the cached state: the tables of the schema text, probed with every probe answered
RunSchemas ==
    { <<TableSection("trades")>>, <<TableSection("trades"), TableSection("news")>>,
      <<TableSection("trades"), TableSection("quotes")>> }
AllAnswered == ProbeReply(<< >>, "int", "value", "value", "value")
RunClient(schema, srv) ==
    DiscoverDataContentOn(InitializedWith(schema), srv, FALSE,
                          [tablesListed |-> FALSE, replies |-> <<AllAnswered, AllAnswered>>]).client

\* TOOL_SELECTION_PROMPT.format(...): the parts of the prompt that vary
PlanningPrompt(c, additional_schema, symbol_cols) ==
    [schema_description |-> PromptSchema(c.schema_description, additional_schema),
     data_content |-> GetDataContentDescription(c.data_content, symbol_cols)]

\* the local variables of a run; symbol_cols is the order in which the
\* process of the run iterates the set of symbol columns
NewRun(symbol_cols, mi) ==
    [pc |-> IF mi = 0 THEN "synthesize" ELSE "plan", symbol_cols |-> symbol_cols,
     iteration |-> 0, plan |-> NoPlan, stepIdx |-> 0, all_tool_results |-> << >>,
     discovered_schema |-> << >>, schema_discovery_done |-> FALSE,
     prompts |-> << >>, calls |-> << >>, outcome |-> "none", answer |-> << >>,
     returned |-> << >>]

RunReturn(run, a, r) ==
    [run EXCEPT !.pc = "done", !.outcome = "returned", !.answer = a, !.returned = r]

\* the checks of the plan after _plan_tool_usage returned it
RunPlanned(run, p) ==
    IF DataUnavailable(p) /\ AnswerPreviewRaises(DataUnavailableAnswer(p))
    THEN [run EXCEPT !.pc = "done", !.outcome = "raised"]
    ELSE IF DataUnavailable(p) THEN RunReturn(run, DataUnavailableAnswer(p), << >>)
    ELSE IF NoToolsNeeded(p, run.iteration) THEN RunReturn(run, p.reasoning, << >>)
    ELSE IF p.steps = << >> THEN [run EXCEPT !.pc = "synthesize"]
    ELSE [run EXCEPT !.pc = "execute", !.stepIdx = 1, !.schema_discovery_done = FALSE]

\* the body of the loop over the steps, and the end of the iteration
RunExecuted(run, step, result, mi) ==
    [run EXCEPT
        !.all_tool_results = Accumulate(@, result),
        !.discovered_schema =
            IF IsSchemaDiscovery(step.purpose) THEN ExtendDiscovered(@, result) ELSE @,
        !.schema_discovery_done = @ \/ IsSchemaDiscovery(step.purpose),
        !.stepIdx = IF run.stepIdx < Len(run.plan.steps) THEN @ + 1 ELSE 0,
        !.pc = IF run.stepIdx < Len(run.plan.steps) THEN "execute"
               ELSE IF Replans(run.schema_discovery_done \/ IsSchemaDiscovery(step.purpose),
                               run.iteration, mi)
               THEN "plan" ELSE "synthesize",
        !.iteration = IF run.stepIdx >= Len(run.plan.steps)
                         /\ Replans(run.schema_discovery_done \/ IsSchemaDiscovery(step.purpose),
                                    run.iteration, mi)
                      THEN @ + 1 ELSE @]

LastRun == tasks[Len(tasks)]
SetLastRun(run) == tasks' = [tasks EXCEPT ![Len(tasks)] = run]

\* intelligent_query is called: the first run, and the second after it
RunStart ==
    /\ callee = "intelligent_query"
    /\ Len(tasks) < 2
    /\ tasks # << >> => LastRun.pc = "done"
    /\ \E symbol_cols \in SetOrders(SymbolCols(data_content)) :
          tasks' = Append(tasks, NewRun(symbol_cols, args.max_iterations))
    /\ UNCHANGED <<clientVars, envVars, queryVars, callee, args, ret, redis>>

\* _plan_tool_usage
RunPlan ==
    /\ callee = "intelligent_query"
    /\ tasks # << >>
    /\ LastRun.pc = "plan"
    /\ \E response \in Answers(args.llm,
                               PlanningPrompt(Client, LastRun.discovered_schema,
                                              LastRun.symbol_cols),
                               RunResponses) :
          /\ SetLastRun(RunPlanned(
                 [LastRun EXCEPT
                     !.plan = PlanToolUsage(response),
                     !.prompts = Append(@, PlanningPrompt(Client, LastRun.discovered_schema,
                                                          LastRun.symbol_cols))],
                 PlanToolUsage(response)))
          /\ args' = [args EXCEPT !.llm =
                         Given(@, PlanningPrompt(Client, LastRun.discovered_schema,
                                                 LastRun.symbol_cols), response)]
    /\ UNCHANGED <<clientVars, envVars, queryVars, callee, ret, redis>>

\* one step of the plan: the tool call and what follows it
RunStep ==
    /\ callee = "intelligent_query"
    /\ tasks # << >>
    /\ LastRun.pc = "execute"
    /\ \E raw \in Answers(args.server,
                          [tool |-> LastRun.plan.steps[LastRun.stepIdx].tool,
                           arguments |-> LastRun.plan.steps[LastRun.stepIdx].arguments],
                          RunReplies) :
          /\ SetLastRun(RunExecuted(
                 [LastRun EXCEPT !.calls =
                     Append(@, [tool |-> LastRun.plan.steps[LastRun.stepIdx].tool,
                                arguments |-> LastRun.plan.steps[LastRun.stepIdx].arguments])],
                 LastRun.plan.steps[LastRun.stepIdx],
                 Annotate(CallTool(LastRun.plan.steps[LastRun.stepIdx].tool,
                                   LastRun.plan.steps[LastRun.stepIdx].arguments, raw),
                          LastRun.plan.steps[LastRun.stepIdx].purpose),
                 args.max_iterations))
          /\ args' = [args EXCEPT !.server =
                         Given(@, [tool |-> LastRun.plan.steps[LastRun.stepIdx].tool,
                                   arguments |-> LastRun.plan.steps[LastRun.stepIdx].arguments],
                               raw)]
    /\ UNCHANGED <<clientVars, envVars, queryVars, callee, ret, redis>>

\* the end of intelligent_query, after the loop
RunSynthesize ==
    /\ callee = "intelligent_query"
    /\ tasks # << >>
    /\ LastRun.pc = "synthesize"
    /\ IF LastRun.all_tool_results = << >>
       THEN /\ SetLastRun(RunReturn(LastRun, Sentinel, << >>))
            /\ UNCHANGED args
       ELSE \E llmOk \in Answers(args.synthesis, LastRun.all_tool_results, BOOLEAN) :
               /\ SetLastRun(RunReturn(LastRun,
                                       SynthesizeResults(LastRun.all_tool_results, llmOk),
                                       LastRun.all_tool_results))
               /\ args' = [args EXCEPT !.synthesis =
                              Given(@, LastRun.all_tool_results, llmOk)]
    /\ UNCHANGED <<clientVars, envVars, queryVars, callee, ret, redis>>

RunsInit ==
    /\ UnitCall("intelligent_query",
                [max_iterations : {RunIterations}, llm : {{}}, synthesis : {{}},
                 server : {{}}])
    /\ \E schema \in RunSchemas : SetClientNow(RunClient(schema, server))

RunsNext == RunStart \/ RunPlan \/ RunStep \/ RunSynthesize

RunsSpec == RunsInit /\ [][RunsNext]_vars

BothRunsDone == Len(tasks) = 2 /\ tasks[1].pc = "done" /\ tasks[2].pc = "done"

\* C23: two runs of intelligent_query from the same cached catalog, schema
\* and data-content state, with a model and a tool server that answer equal
\* requests equally, issue the same sequence of planning prompts and tool
\* calls and return the same result.
C23_RunsAgree ==
    BothRunsDone
    => /\ tasks[1].prompts = tasks[2].prompts
       /\ tasks[1].calls = tasks[2].calls
       /\ tasks[1].outcome = tasks[2].outcome
       /\ tasks[1].answer = tasks[2].answer
       /\ tasks[1].returned = tasks[2].returned

\* ---- the audience filter of schema synthesis (checked under Spec)
\* the last call listed the resources of the server and synthesized the texts
Synthesized ==
    /\ lastOp.op \in {"initialize", "refresh_schema"}
    /\ ~lastOp.raised
    /\ lastReqs.list_resources = 1
    /\ server.resourceList # << >>

\* the audience annotation is absent or includes an LLM-facing value
AudienceAllows(r) == r.audience = {} \/ \E a \in r.audience : a \in {"llm", "assistant", "ai"}

\* the text names the resource or holds its content
TextUses(text, r) == \E i \in DOMAIN text : text[i].v \in {r.name, r.uri}

ContextUses(context, r) ==
    \E i \in DOMAIN context : context[i].key = r.name \/ TextUses(context[i].val, r)

\* C24: schema synthesis reads and uses exactly the resources whose audience
\* annotation is absent or includes an LLM-facing value: a resource whose
\* audience list contains no such value is never read and contributes to none
\* of the schema, guidance or additional-context texts, while a resource
\* without annotations is retained.
C24_OnlyLlmResourcesUsed ==
    Synthesized
    => /\ lastReqs.read_resource =
              Cardinality({i \in DOMAIN server.resourceList :
                              AudienceAllows(server.resourceList[i])})
       /\ \A i \in DOMAIN server.resourceList :
             ~AudienceAllows(server.resourceList[i])
             => /\ ~TextUses(schema_description, server.resourceList[i])
                /\ ~TextUses(sql_guidance, server.resourceList[i])
                /\ ~ContextUses(additional_context, server.resourceList[i])
       /\ \A i \in DOMAIN server.resourceList :
             (server.resourceList[i].audience = {} /\ server.resourceList[i].readable)
             => \/ TextUses(schema_description, server.resourceList[i])
                \/ TextUses(sql_guidance, server.resourceList[i])
                \/ ContextUses(additional_context, server.resourceList[i])

\* ---- the buckets of schema synthesis (checked under UnitSpec)
SchemaDiscovered == callee = "_discover_schema" /\ ret.done

\* the resources whose content is held by a text, in the order of the text
UrisIn(text) == [i \in DOMAIN SelectSeq(text, LAMBDA t : t.k = "body") |->
                    SelectSeq(text, LAMBDA t : t.k = "body")[i].v]
ContextUris == Flatten([i \in DOMAIN additional_context |-> UrisIn(additional_context[i].val)])

\* the schema text when it is the schema bucket (its other forms are the
\* summary of all contents and the list of the resources)
SchemaBucketUris ==
    IF schema_description # << >> /\ schema_description[1].k = "##"
    THEN UrisIn(schema_description) ELSE << >>

ListedAt(uri) == CHOOSE i \in DOMAIN server.resourceList : server.resourceList[i].uri = uri
PriorityAt(uri) ==
    IF server.resourceList[ListedAt(uri)].priority = {} THEN 5
    ELSE CHOOSE p \in server.resourceList[ListedAt(uri)].priority : TRUE

\* descending priority, and the order of the listing among equal priorities
InPriorityOrder(uris) ==
    \A i, j \in DOMAIN uris :
        i < j => \/ PriorityAt(uris[i]) > PriorityAt(uris[j])
                 \/ /\ PriorityAt(uris[i]) = PriorityAt(uris[j])
                    /\ ListedAt(uris[i]) < ListedAt(uris[j])

\* C25: within each bucket of the synthesized schema (schema, guidance, other
\* context), resource contents appear in descending priority order (a missing
\* priority counts as 0.5), and resources of equal priority keep the order in
\* which the server listed them.
C25_BucketsInPriorityOrder ==
    SchemaDiscovered
    => /\ InPriorityOrder(SchemaBucketUris)
       /\ InPriorityOrder(UrisIn(sql_guidance))
       /\ InPriorityOrder(ContextUris)

\* the bucket a resource belongs to: schema keywords win over guidance keywords
BucketOf(r) ==
    IF \E w \in r.words : w \in {"schema", "tables", "describe", "meta", "column", "structure"}
    THEN "schema"
    ELSE IF \E w \in r.words : w \in {"sql", "guidance", "query", "syntax", "example", "how to"}
    THEN "guidance"
    ELSE "other"

Holds(uris, uri) == \E i \in DOMAIN uris : uris[i] = uri

\* C26: every LLM-facing resource with non-empty content is placed in exactly
\* one of the three buckets (schema keywords win over guidance keywords,
\* anything else goes to other context), and none is dropped: the content of
\* every unclassified resource is in the additional context afterwards,
\* including when two resources share a name.
C26_EveryResourceInOneBucket ==
    SchemaDiscovered
    => \A i \in DOMAIN server.resourceList :
          (AudienceAllows(server.resourceList[i]) /\ server.resourceList[i].readable)
          => /\ BucketOf(server.resourceList[i]) = "schema"
                => (SchemaBucketUris # << >>
                    /\ Holds(SchemaBucketUris, server.resourceList[i].uri))
             /\ BucketOf(server.resourceList[i]) # "schema"
                => ~Holds(SchemaBucketUris, server.resourceList[i].uri)
             /\ Holds(UrisIn(sql_guidance), server.resourceList[i].uri)
                <=> BucketOf(server.resourceList[i]) = "guidance"
             /\ Holds(ContextUris, server.resourceList[i].uri)
                <=> BucketOf(server.resourceList[i]) = "other"

\* ---- the tool fallback of schema discovery (checked under UnitSpec)
\* the calls made with empty arguments: those of the schema-keyword tools
EmptyArgumentCalls(calls) == SelectSeq(calls, LAMBDA c : c.arguments = "{}")

\* the first tool of the catalog that matches a schema keyword
FirstSchemaTool(ts) == ts[CHOOSE i \in DOMAIN ts :
                             ts[i].schemaKw /\ \A j \in 1..(i - 1) : ~ts[j].schemaKw]

\* C27: in the tool fallback of schema discovery only the first tool that
\* matches a schema keyword is called, with empty arguments; if that call
\* fails or returns nothing useful, discovery moves on to the SQL-capable
\* tools without calling any other schema-keyword tool.
C27_OnlyFirstSchemaToolCalled ==
    (callee = "_discover_schema_via_tools" /\ ret.done)
    => /\ Len(EmptyArgumentCalls(ret.value.calls)) <= 1
       /\ \A i \in DOMAIN ret.value.calls :
             ret.value.calls[i].arguments = "{}"
             => /\ i = 1
                /\ ret.value.calls[i].tool = FirstSchemaTool(tools).name

\* ---- the tool names of an invocation (checked under QuerySpec)
\* the names of the tools discovered from the server's tool list
DiscoveredToolNames == {tools[i].name : i \in DOMAIN tools}

\* C28: the client hardcodes no tool names: every tool name it passes to
\* call_tool, in plan execution and in the fast path, is the name of a tool
\* discovered from the server's tool list.
C28_OnlyDiscoveredToolsCalled ==
    \A call \in inflight : call.tool \in DiscoveredToolNames

\* ---- the load jobs of the data loader (routes/kdb_data.py)
\* A request is a task; the job a request starts takes the task's number as
\* its job id (the code draws a fresh uuid for every job).
MaxRequests == 2
JobIds == 1..MaxRequests
JobSymbols == <<"AAPL", "MSFT">>

InList(x, list) == \E k \in DOMAIN list : list[k] = x

\* class JobStatus: the fields the loader and the routes decide on
NoJob == [job_id |-> 0, status |-> "absent", completed_symbols |-> << >>, phase |-> "none"]
JobStatus(job_id, completed_symbols) ==
    [job_id |-> job_id, status |-> "running", completed_symbols |-> completed_symbols,
     phase |-> "initializing"]

\* save_job_state: the whole record replaces what the store holds
SaveJobState(store, job) == [store EXCEPT ![job.job_id] = job]

GetJobState(store, job_id) == store[job_id]

\* get_active_job: the running jobs among the recent ones
GetActiveJob(store) == {j \in DOMAIN store : store[j].status = "running"}

IsJobCancelled(store, job_id) == GetJobState(store, job_id).status = "cancelled"

\* A request: the response of its handler and, when it was accepted, the
\* generator that streams the load. cancel_marked, checks and started record
\* that cancel_job marked the job, the cancellation checks passed and the
\* symbols begun (fetches and inserts); original is the status of the job a
\* retry was asked for, attempted the symbols whose fetch was begun.
NewRequest(kind, response, resume_from) ==
    [kind |-> kind, response |-> response,
     pc |-> IF response = 200 THEN "start" ELSE "rejected",
     job |-> NoJob, resume_from |-> resume_from, i |-> 0, all_data |-> {},
     cancel_marked |-> FALSE, checks |-> 0, started |-> 0,
     original |-> "none", attempted |-> {}]

\* the check for cancellation at the head of a loop body, and the save of
\* current_symbol that follows it
Checkpoint(task, store, next_pc) ==
    IF IsJobCancelled(store, task.job.job_id)
    THEN [task |-> [task EXCEPT !.job.status = "cancelled", !.pc = "done",
                                !.checks = @ + 1],
          store |-> SaveJobState(store, [task.job EXCEPT !.status = "cancelled"])]
    ELSE [task |-> [task EXCEPT !.pc = next_pc, !.checks = @ + 1, !.started = @ + 1,
                                !.attempted = IF next_pc = "fetch"
                                              THEN @ \cup {JobSymbols[task.i]} ELSE @],
          store |-> SaveJobState(store, task.job)]

\* the job is complete
Complete(task, store) ==
    [task |-> [task EXCEPT !.job.status = "completed", !.job.phase = "complete",
                           !.pc = "done"],
     store |-> SaveJobState(store, [task.job EXCEPT !.status = "completed",
                                                    !.phase = "complete"])]

\* the insert loop from symbol i on, up to its next await
RECURSIVE InsertFrom(_, _, _)
InsertFrom(task, store, i) ==
    IF i > Len(JobSymbols) THEN Complete(task, store)
    ELSE IF InList(JobSymbols[i], task.resume_from) \/ JobSymbols[i] \notin task.all_data
    THEN InsertFrom(task, store, i + 1)
    ELSE Checkpoint([task EXCEPT !.i = i], store, "insert")

\* the fetch loop from symbol i on, up to its next await; after the last
\* symbol the phase becomes "inserting" and the insert loop starts
RECURSIVE FetchFrom(_, _, _)
FetchFrom(task, store, i) ==
    IF i > Len(JobSymbols)
    THEN InsertFrom([task EXCEPT !.job.phase = "inserting"],
                    SaveJobState(store, [task.job EXCEPT !.phase = "inserting"]), 1)
    ELSE IF InList(JobSymbols[i], task.resume_from) THEN FetchFrom(task, store, i + 1)
    ELSE Checkpoint([task EXCEPT !.i = i], store, "fetch")

JobUnchanged == UNCHANGED <<clientVars, envVars, queryVars, callee, args, ret>>

SetLoader(t, r) ==
    /\ tasks' = [tasks EXCEPT ![t] = r.task]
    /\ redis' = r.store
    /\ JobUnchanged

\* POST /kdb/load-historical
LoadHistoricalData(valid_dates) ==
    /\ Len(tasks) < MaxRequests
    /\ tasks' = Append(tasks,
                       NewRequest("load",
                                  IF ~valid_dates THEN 400
                                  ELSE IF GetActiveJob(redis) # {} THEN 409 ELSE 200,
                                  << >>))
    /\ UNCHANGED redis
    /\ JobUnchanged

\* the response of retry_job
RetryResponse(store, job_id) ==
    IF GetJobState(store, job_id).status = "absent" THEN 404
    ELSE IF GetJobState(store, job_id).status \in {"running", "completed"} THEN 400
    ELSE IF GetActiveJob(store) # {} THEN 409
    ELSE 200

\* POST /kdb/jobs/{job_id}/retry
RetryJob(job_id) ==
    /\ Len(tasks) < MaxRequests
    /\ tasks' = Append(tasks,
                       [NewRequest("retry", RetryResponse(redis, job_id),
                                   IF RetryResponse(redis, job_id) = 200
                                   THEN GetJobState(redis, job_id).completed_symbols
                                   ELSE << >>)
                          EXCEPT !.original = GetJobState(redis, job_id).status])
    /\ UNCHANGED redis
    /\ JobUnchanged

\* POST /kdb/jobs/{job_id}/cancel, when it answers 200: the job exists and the
\* store says it is running
CancelJob(job_id) ==
    /\ GetJobState(redis, job_id).status = "running"
    /\ redis' = SaveJobState(redis, [GetJobState(redis, job_id) EXCEPT !.status = "cancelled"])
    /\ tasks' = [tasks EXCEPT ![job_id].cancel_marked = TRUE]
    /\ JobUnchanged

\* generate_progress_stream, up to its first yield
StreamStart(t) ==
    /\ t \in DOMAIN tasks
    /\ tasks[t].pc = "start"
    /\ SetLoader(t, [task |-> [tasks[t] EXCEPT
                                  !.job = JobStatus(t, tasks[t].resume_from),
                                  !.pc = IF tasks[t].resume_from # << >> THEN "fetching"
                                         ELSE "clearing"],
                     store |-> SaveJobState(redis, JobStatus(t, tasks[t].resume_from))])

\* phase "clearing", up to the yield before clear_kdb_tables
StreamClearing(t) ==
    /\ t \in DOMAIN tasks
    /\ tasks[t].pc = "clearing"
    /\ SetLoader(t, [task |-> [tasks[t] EXCEPT !.job.phase = "clearing",
                                               !.pc = "clear_tables"],
                     store |-> SaveJobState(redis, [tasks[t].job EXCEPT !.phase = "clearing"])])

\* await clear_kdb_tables()
ClearKdbTables(t, success) ==
    /\ t \in DOMAIN tasks
    /\ tasks[t].pc = "clear_tables"
    /\ IF success
       THEN SetLoader(t, [task |-> [tasks[t] EXCEPT !.pc = "fetching"], store |-> redis])
       ELSE SetLoader(t, [task |-> [tasks[t] EXCEPT !.job.status = "failed", !.pc = "done"],
                          store |-> SaveJobState(redis, [tasks[t].job EXCEPT !.status = "failed"])])

\* phase "fetching" and the head of the fetch loop
StreamFetching(t) ==
    /\ t \in DOMAIN tasks
    /\ tasks[t].pc = "fetching"
    /\ SetLoader(t, FetchFrom([tasks[t] EXCEPT !.job.phase = "fetching"],
                              SaveJobState(redis, [tasks[t].job EXCEPT !.phase = "fetching"]),
                              1))

\* await load_symbol_data(...), and the save of total_rows when it succeeded
LoadSymbolData(t, success) ==
    /\ t \in DOMAIN tasks
    /\ tasks[t].pc = "fetch"
    /\ IF success
       THEN SetLoader(t, [task |-> [tasks[t] EXCEPT
                                       !.all_data = @ \cup {JobSymbols[tasks[t].i]},
                                       !.pc = "fetch_next"],
                          store |-> SaveJobState(redis, tasks[t].job)])
       ELSE SetLoader(t, [task |-> [tasks[t] EXCEPT !.pc = "fetch_next"], store |-> redis])

\* after the sleep that ends an iteration of the fetch loop
StreamNextFetch(t) ==
    /\ t \in DOMAIN tasks
    /\ tasks[t].pc = "fetch_next"
    /\ SetLoader(t, FetchFrom(tasks[t], redis, tasks[t].i + 1))

\* the job after insert_data_to_kdb returned
Inserted(job, symbol, success) ==
    IF success THEN [job EXCEPT !.completed_symbols = Append(@, symbol)] ELSE job

\* await insert_data_to_kdb(...), and the save that follows
InsertDataToKdb(t, success) ==
    /\ t \in DOMAIN tasks
    /\ tasks[t].pc = "insert"
    /\ SetLoader(t, [task |-> [tasks[t] EXCEPT
                                  !.job = Inserted(@, JobSymbols[tasks[t].i], success),
                                  !.pc = "insert_next"],
                     store |-> SaveJobState(redis, Inserted(tasks[t].job, JobSymbols[tasks[t].i],
                                                            success))])

\* after the sleep that ends an iteration of the insert loop
StreamNextInsert(t) ==
    /\ t \in DOMAIN tasks
    /\ tasks[t].pc = "insert_next"
    /\ SetLoader(t, InsertFrom(tasks[t], redis, tasks[t].i + 1))

JobInit ==
    /\ SetClientNow(NewClient)
    /\ server = CHOOSE srv \in QueryServers : srv.listToolsOk
    /\ changes = 0
    /\ lastOp = Op("construct", FALSE, FALSE)
    /\ lastReqs = NoReqs
    /\ plan = NoPlan
    /\ QueryIdle
    /\ callee = "none"
    /\ args = << >>
    /\ ret = Pending
    /\ tasks = << >>
    /\ redis = [j \in JobIds |-> NoJob]

JobNext ==
    \/ \E valid_dates \in BOOLEAN : LoadHistoricalData(valid_dates)
    \/ \E job_id \in JobIds : RetryJob(job_id)
    \/ \E job_id \in JobIds : CancelJob(job_id)
    \/ \E t \in JobIds : StreamStart(t)
    \/ \E t \in JobIds : StreamClearing(t)
    \/ \E t \in JobIds, success \in BOOLEAN : ClearKdbTables(t, success)
    \/ \E t \in JobIds : StreamFetching(t)
    \/ \E t \in JobIds, success \in BOOLEAN : LoadSymbolData(t, success)
    \/ \E t \in JobIds : StreamNextFetch(t)
    \/ \E t \in JobIds, success \in BOOLEAN : InsertDataToKdb(t, success)
    \/ \E t \in JobIds : StreamNextInsert(t)

JobSpec == JobInit /\ [][JobNext]_vars

\* ---- properties of the load jobs (checked under JobSpec)
\* C29: after cancel_job marked a running job cancelled, the loader stops at
\* its next checkpoint between symbols, starting no further fetch or insert,
\* and the persisted status of the job stays cancelled: it never becomes
\* running or completed again, whatever the interleaving of the cancel
\* request with the loader's saves.
C29_CancelStopsLoader ==
    [][\A t \in DOMAIN tasks :
          tasks[t].cancel_marked
          => /\ redis'[t].status = "cancelled"
             /\ tasks'[t].checks > tasks[t].checks
                => tasks'[t].started = tasks[t].started]_vars

RunningJobs == {j \in DOMAIN redis : redis[j].status = "running"}

\* C30: at most one load job has status running at any time, and a load or
\* retry request made while a job is running is rejected and starts no new
\* job, whatever the interleaving of the requests.
C30_AtMostOneRunningJob ==
    [][/\ Cardinality(RunningJobs') <= 1
       /\ (Len(tasks') > Len(tasks) /\ RunningJobs # {})
          => /\ tasks'[Len(tasks')].response # 200
             /\ tasks'[Len(tasks')].pc = "rejected"]_vars

\* an accepted retry
Retries == {t \in DOMAIN tasks : tasks[t].kind = "retry" /\ tasks[t].response = 200}

\* C31: retry_job is accepted only for a failed or cancelled job, and the new
\* job resumes where the original stopped: it does not clear the tables, it
\* fetches and inserts no symbol of the original's completed_symbols, and
\* when it runs to completion it has attempted every other symbol.
C31_RetryResumes ==
    \A t \in Retries :
        /\ tasks[t].original \in {"failed", "cancelled"}
        /\ tasks[t].pc \notin {"clearing", "clear_tables"}
        /\ tasks[t].pc \in {"fetch", "insert"}
           => ~InList(JobSymbols[tasks[t].i], tasks[t].resume_from)
        /\ \A k \in DOMAIN JobSymbols :
              InList(JobSymbols[k], tasks[t].resume_from)
              => JobSymbols[k] \notin tasks[t].attempted
        /\ (tasks[t].pc = "done" /\ tasks[t].job.status = "completed")
           => \A k \in DOMAIN JobSymbols :
                 InList(JobSymbols[k], tasks[t].resume_from)
                 \/ JobSymbols[k] \in tasks[t].attempted

\* C40: a load job whose persisted status is completed has every requested
\* symbol in completed_symbols: a job in which the fetch or the insert of
\* some symbol failed does not end with status completed.
C40_CompletedMeansAllSymbols ==
    \A j \in DOMAIN redis :
        redis[j].status = "completed"
        => \A k \in DOMAIN JobSymbols : InList(JobSymbols[k], redis[j].completed_symbols)

\* ---- search_kdb_nat (checked under UnitSpec)
SearchReturned == callee = "search_kdb_nat" /\ ret.done

ProducedRelevant(result, score) == result.content # << >> /\ score = "yes"

\* C33: in hybrid mode with web search enabled, the web-search fallback runs
\* whenever neither source produced a relevant result, including when one
\* source returned no content and the other's content was judged not
\* relevant.
C33_WebFallbackWhenNothingRelevant ==
    (/\ callee = "process_single_query" /\ ret.done
     /\ args.search_web
     /\ ~ProducedRelevant(args.kdb, args.kdb_score)
     /\ ~ProducedRelevant(args.rag, args.rag_score))
    => ret.value.web_search

\* ---- write_to_index (checked under UnitSpec)
\* ceil(n / d) for d > 0
CeilDiv(n, d) == (n + d - 1) \div d

\* C34: write_to_index inserts every cleaned record exactly once, in order,
\* in consecutive batches of at most the batch size, with ceil(n / batch
\* size) insert calls for n records; for n = 0 it makes no insert call and
\* does not raise, in CPU mode and in GPU single-batch mode alike.
C34_BatchesCoverRecords ==
    (callee = "write_to_index" /\ ret.done)
    => /\ ~ret.value.raised
       /\ Flatten(ret.value.inserts) = args.records
       /\ \A b \in DOMAIN ret.value.inserts :
             /\ ret.value.inserts[b] # << >>
             /\ Len(ret.value.inserts[b]) <= BatchSize(args.records, args.single_batch)
       /\ args.records = << >> => ret.value.inserts = << >>
       /\ args.records # << >>
          => Len(ret.value.inserts)
             = CeilDiv(Len(args.records), BatchSize(args.records, args.single_batch))

\* ---- the results intelligent_query returns (checked under QuerySpec)
\* C35: the tool-result list returned by intelligent_query is empty only if
\* no plan step was executed during the invocation: the results of an
\* earlier iteration are still returned when a later plan declares
\* data_available = false.
C35_ExecutedResultsReturned ==
    (mode = "intelligent_query" /\ outcome = "returned" /\ returned = << >>)
    => all_tool_results = << >>


\* C36: in every reachable state in which the client is marked initialized
\* the schema text is non-empty, also while refresh_schema() is suspended in
\* the middle of rediscovery and other coroutines run.
C36_InitializedHasSchema == initialized => schema_description # << >>

\* C37: a discover_data_content run that was in flight when refresh_schema()
\* cleared the cache leaves nothing in the refreshed cache: once the refresh
\* and that run have both ended and no other run has started, the cache holds
\* no entry and the discovered flag is not set.
C37_StaleRunWritesNothing ==
    \A t \in TaskIds \ {Refresher} :
        (/\ tasks[Refresher].pc \in {"done", "raised"}
         /\ tasks[t].stale
         /\ tasks[t].pc = "done"
         /\ \A u \in TaskIds \ {Refresher, t} : tasks[u].pc = "start")
        => (data_content = << >> /\ ~data_content_discovered)


\* a response that is a bare SELECT statement: no think tag, no fence, no
\* escaped quote, and not wrapped in quotes
BareSelect(response) ==
    /\ response # << >>
    /\ Head(response) = "SELECT"
    /\ \A i \in DOMAIN response :
          response[i] \notin {"<think>", "</think>", "fence_sql", "fence", "\\\"sym\\\""}

\* C38: the fast-path clean-up leaves a clean statement unchanged: for a bare
\* SELECT response the query executed equals the response, also when the
\* statement ends with a quoted literal or a quoted column name.
C38_CleanStatementUnchanged ==
    (callee = "simple_chat_query.cleanup" /\ ret.done /\ BareSelect(args.response))
    => ret.value = args.response


\* C39: when initialize() raises because tool listing failed it changes no
\* client state: the catalog, the tools description, the resources, the
\* schema text, the caches and the initialized flag are as before the call.
C39_FailedListingChangesNothing ==
    [][(lastOp'.op = "initialize" /\ lastOp'.raised /\ ~server.listToolsOk)
       => UNCHANGED clientVars]_vars

\* a forced initialize() of an initialized client that holds a catalog has
\* raised on a server whose tool listing fails
C39_Witness ==
    /\ lastOp = Op("initialize", TRUE, TRUE)
    /\ ~server.listToolsOk
    /\ initialized
    /\ tools # << >>
    /\ schema_description # << >>

====
